---- MODULE Spec2Model ----
(***************************************************************************)
(* A model of the drivers microservice: the Driver entity and its          *)
(* validation rules, the HoursOfService counter, the DriverService         *)
(* request handlers and the Prisma-backed driver store.                    *)
(*                                                                         *)
(* Time is counted in days; a calendar year is DaysPerYear days long        *)
(* (YearOf).  Hours are counted in ticks of half an hour, the resolution   *)
(* of REQUIRED_BREAK_TIME = 0.5.  A JavaScript value that is undefined,    *)
(* null or the empty string is NONE.                                       *)
(***************************************************************************)
EXTENDS Integers, Sequences, FiniteSets, TLC

VARIABLES
    now,        \* the clock read by new Date()
    hos,        \* the HoursOfService counter under test
    hosLast,    \* the last call made on it: operation, argument, prior state, result
    ent,        \* a Driver entity held in memory
    entLast,    \* the last call made on it: operation, argument, prior state, result
    store,      \* the drivers table with its related rows: driver id -> row
    nextId,     \* how many driver ids the database has generated
    req,        \* the requests in flight: slot -> the handler's position and locals
    prev,       \* the request answered last, when it assigned a load
    cred,       \* the last call of checkCredentialStatus: threshold, time, driver, result
    sub,        \* an Endorsement or a Document held in memory
    subLast     \* the last call made on it: operation, argument, prior state, result

hosVars == <<hos, hosLast>>
entVars == <<ent, entLast>>
svcVars == <<store, nextId, req, prev>>
auxVars == <<cred, sub, subLast>>
vars == <<now, hos, hosLast, ent, entLast, store, nextId, req, prev, cred, sub, subLast>>

\* undefined, null or the empty string
NONE == "none"
\* an undefined Date
NoDate == 0 - 1
\* no Driver object (null)
NoDriver == << >>

\* The clock at the start of a run: the first day of year 100, late enough for an
\* 80-year-old to have a birth date.
StartTime == 36500
\* How far the clock advances in a run of the entity.
MaxTicks == 1
\* How many drivers are created in a run.
MaxDrivers == 2
\* How many notes are appended to a driver's notes field in a run.
MaxNotes == 2

-----------------------------------------------------------------------------
(* Driver (src/drivers-service/src/domain/models/driver.entity.ts)         *)

DriverStatuses ==
    {"available", "driving", "on-break", "loading", "unloading", "maintenance", "away", "off-duty"}
DriverTypes == {"company", "owner_operator", "lease_purchase"}
EmploymentStatuses == {"active", "leave", "terminated"}

DateFields ==
    {"dob", "licenseExpiry", "medCertExpiry", "twicExpiry", "hireDate", "createdAt", "updatedAt",
     "expiryDate"}
ListFields == {"emergencyContacts", "endorsements", "documents", "hoursOfService"}

\* The value of a key an object does not have: undefined.
Undefined(f) == IF f \in DateFields THEN NoDate ELSE IF f \in ListFields THEN << >> ELSE NONE

\* data[f]
Get(data, f) == IF f \in DOMAIN data THEN data[f] ELSE Undefined(f)

\* !value, for the values a field can hold (a Date object and an array are truthy)
Falsy(f, v) == IF f \in ListFields THEN FALSE ELSE v = Undefined(f)

\* { ...a, ...b }, and Object.assign(a, b)
Merge(a, b) ==
    [f \in DOMAIN a \cup DOMAIN b |-> IF f \in DOMAIN b THEN b[f] ELSE a[f]]

\* Two objects agree on every field read through them.
SameFields(a, b) == \A f \in DOMAIN a \cup DOMAIN b : Get(a, f) = Get(b, f)

\* getFullYear()
DaysPerYear == 365
YearOf(t) == t \div DaysPerYear

\* The sample e-mail addresses, and emailRegex.test on them.
ValidEmails == {"a@x.com", "b@x.com", "c@x.com"}
EmailFormatOk(e) == e \in ValidEmails

\* The sample phone numbers, and phoneRegex.test on their digits.
PhoneDigits(p) == IF p = "519-980-6545" THEN 10 ELSE IF p = "555-0100" THEN 7 ELSE 0
PhoneFormatOk(p) == PhoneDigits(p) >= 10 /\ PhoneDigits(p) <= 15

RequiredFields ==
    {"firstName", "lastName", "dob", "phonePrimary", "email", "licenseNumber", "licenseState",
     "licenseClass", "licenseExpiry", "medCertExpiry", "hireDate", "driverType"}

\* validateDriverData without the check of the license expiry.
ValidateDriverDataNoLicenseCheck(data, t) ==
    IF \E f \in RequiredFields : Falsy(f, Get(data, f))
        THEN "Invalid driver data: Missing required field"
    ELSE IF ~EmailFormatOk(Get(data, "email"))
        THEN "Invalid driver data: Invalid email format"
    ELSE IF ~PhoneFormatOk(Get(data, "phonePrimary"))
        THEN "Invalid driver data: Invalid primary phone number format"
    ELSE IF /\ ~Falsy("phoneSecondary", Get(data, "phoneSecondary"))
            /\ ~PhoneFormatOk(Get(data, "phoneSecondary"))
        THEN "Invalid driver data: Invalid secondary phone number format"
    ELSE IF \/ YearOf(Get(data, "dob")) < YearOf(t) - 80
            \/ YearOf(Get(data, "dob")) > YearOf(t) - 21
        THEN "Invalid driver data: Invalid date of birth"
    ELSE IF Get(data, "medCertExpiry") < t
        THEN "Invalid driver data: Medical certificate is already expired"
    ELSE IF Get(data, "driverType") \notin DriverTypes
        THEN "Invalid driver data: Invalid driver type"
    ELSE IF /\ ~Falsy("employmentStatus", Get(data, "employmentStatus"))
            /\ Get(data, "employmentStatus") \notin EmploymentStatuses
        THEN "Invalid driver data: Invalid employment status"
    ELSE "ok"

\* validateDriverData(data) at time t: "ok", or the message of the error it throws.
ValidateDriverData(data, t) ==
    IF \E f \in RequiredFields : Falsy(f, Get(data, f))
        THEN "Invalid driver data: Missing required field"
    ELSE IF ~EmailFormatOk(Get(data, "email"))
        THEN "Invalid driver data: Invalid email format"
    ELSE IF ~PhoneFormatOk(Get(data, "phonePrimary"))
        THEN "Invalid driver data: Invalid primary phone number format"
    ELSE IF /\ ~Falsy("phoneSecondary", Get(data, "phoneSecondary"))
            /\ ~PhoneFormatOk(Get(data, "phoneSecondary"))
        THEN "Invalid driver data: Invalid secondary phone number format"
    ELSE IF \/ YearOf(Get(data, "dob")) < YearOf(t) - 80
            \/ YearOf(Get(data, "dob")) > YearOf(t) - 21
        THEN "Invalid driver data: Invalid date of birth"
    ELSE IF Get(data, "licenseExpiry") < t
        THEN "Invalid driver data: License is already expired"
    ELSE IF Get(data, "medCertExpiry") < t
        THEN "Invalid driver data: Medical certificate is already expired"
    ELSE IF Get(data, "driverType") \notin DriverTypes
        THEN "Invalid driver data: Invalid driver type"
    ELSE IF /\ ~Falsy("employmentStatus", Get(data, "employmentStatus"))
            /\ Get(data, "employmentStatus") \notin EmploymentStatuses
        THEN "Invalid driver data: Invalid employment status"
    ELSE "ok"

\* new Driver(props): empty collections and fresh timestamps, then the properties given.
NewDriver(props, t) ==
    Merge([emergencyContacts |-> << >>, endorsements |-> << >>, documents |-> << >>,
           createdAt |-> t, updatedAt |-> t], props)

\* Driver.create(data) at time t: the result and the Driver made.
DriverCreate(data, t) ==
    LET driverData ==
            Merge(data,
                  [employmentStatus |->
                       IF Falsy("employmentStatus", Get(data, "employmentStatus"))
                       THEN "active" ELSE Get(data, "employmentStatus"),
                   status |->
                       IF Falsy("status", Get(data, "status"))
                       THEN "available" ELSE Get(data, "status"),
                   emergencyContacts |-> Get(data, "emergencyContacts"),
                   endorsements |-> Get(data, "endorsements"),
                   documents |-> Get(data, "documents")])
        v == ValidateDriverData(driverData, t)
    IN  IF v # "ok" THEN [result |-> v, driver |-> NoDriver]
        ELSE [result |-> "ok", driver |-> NewDriver(driverData, t)]

\* isAvailable()
IsAvailable(d) == Get(d, "status") = "available"

\* updateStatus(status)
DriverUpdateStatus(d, status, t) == Merge(d, [status |-> status, updatedAt |-> t])

\* assignLoad(loadId)
DriverAssignLoad(d, loadId, t) ==
    Merge(d, [loadId |-> loadId, status |-> "driving", updatedAt |-> t])

\* completeLoad resetting the status and keeping the load.
DriverCompleteLoadKeepsLoad(d, t) == Merge(d, [status |-> "available", updatedAt |-> t])

\* completeLoad()
DriverCompleteLoad(d, t) ==
    Merge(d, [loadId |-> NONE, status |-> "available", updatedAt |-> t])

\* The notes text after a labelled note is appended to it.
AppendNote(existing, label, notes) ==
    IF Falsy("notes", existing) THEN label \o ": " \o notes
    ELSE existing \o "\n\n" \o label \o ": " \o notes

\* terminate(notes) overwriting the notes field with the termination note.
DriverTerminateOverwritesNotes(d, notes, t) ==
    Merge(d, IF Falsy("notes", notes)
             THEN [employmentStatus |-> "terminated", status |-> "off-duty", updatedAt |-> t]
             ELSE [employmentStatus |-> "terminated", status |-> "off-duty", updatedAt |-> t,
                   notes |-> "Termination: " \o notes])

\* terminate(notes)
DriverTerminate(d, notes, t) ==
    Merge(d, IF Falsy("notes", notes)
             THEN [employmentStatus |-> "terminated", status |-> "off-duty", updatedAt |-> t]
             ELSE [employmentStatus |-> "terminated", status |-> "off-duty", updatedAt |-> t,
                   notes |-> AppendNote(Get(d, "notes"), "Termination", notes)])

\* putOnLeave(notes)
DriverPutOnLeave(d, notes, t) ==
    Merge(d, IF Falsy("notes", notes)
             THEN [employmentStatus |-> "leave", status |-> "away", updatedAt |-> t]
             ELSE [employmentStatus |-> "leave", status |-> "away", updatedAt |-> t,
                   notes |-> AppendNote(Get(d, "notes"), "Leave", notes)])

\* returnFromLeave() leaving the operational status as it is.
DriverReturnFromLeaveKeepsStatus(d, t) == Merge(d, [employmentStatus |-> "active", updatedAt |-> t])

\* returnFromLeave()
DriverReturnFromLeave(d, t) ==
    Merge(d, [employmentStatus |-> "active", status |-> "available", updatedAt |-> t])

\* checkCredentialStatus with the threshold date itself excluded.
CheckCredentialStatusExclusive(d, daysThreshold, t) ==
    LET thresholdDate == t + daysThreshold
    IN  [licenseExpired |-> t > d.licenseExpiry,
         licenseExpiringSoon |-> t <= d.licenseExpiry /\ d.licenseExpiry < thresholdDate,
         medCertExpired |-> t > d.medCertExpiry,
         medCertExpiringSoon |-> t <= d.medCertExpiry /\ d.medCertExpiry < thresholdDate,
         twicExpired |-> IF Falsy("twicExpiry", Get(d, "twicExpiry")) THEN FALSE ELSE t > d.twicExpiry,
         twicExpiringSoon |->
             IF Falsy("twicExpiry", Get(d, "twicExpiry")) THEN FALSE
             ELSE t <= d.twicExpiry /\ d.twicExpiry < thresholdDate]

\* checkCredentialStatus(daysThreshold) at time t
CheckCredentialStatus(d, daysThreshold, t) ==
    LET thresholdDate == t + daysThreshold
    IN  [licenseExpired |-> t > d.licenseExpiry,
         licenseExpiringSoon |-> t <= d.licenseExpiry /\ d.licenseExpiry <= thresholdDate,
         medCertExpired |-> t > d.medCertExpiry,
         medCertExpiringSoon |-> t <= d.medCertExpiry /\ d.medCertExpiry <= thresholdDate,
         twicExpired |-> IF Falsy("twicExpiry", Get(d, "twicExpiry")) THEN FALSE ELSE t > d.twicExpiry,
         twicExpiringSoon |->
             IF Falsy("twicExpiry", Get(d, "twicExpiry")) THEN FALSE
             ELSE t <= d.twicExpiry /\ d.twicExpiry <= thresholdDate]

\* addEmergencyContact, addEndorsement, addDocument: push to the collection in field.
DriverAddTo(d, field, element, t) ==
    [f \in DOMAIN d |-> IF f = field THEN Append(d[f], element)
                         ELSE IF f = "updatedAt" THEN t ELSE d[f]]

\* A removal that sets updatedAt whether or not an element was removed.
DriverRemoveFromAlwaysStamps(d, field, id, t) ==
    LET kept == SelectSeq(d[field], LAMBDA e : e.id # id)
    IN  [result |-> IF Len(d[field]) > Len(kept) THEN "true" ELSE "false",
         driver |-> [f \in DOMAIN d |-> IF f = field THEN kept
                                         ELSE IF f = "updatedAt" THEN t ELSE d[f]]]

\* removeEmergencyContact, removeEndorsement, removeDocument: filter the collection in
\* field by id; updatedAt is set when the collection became shorter.
DriverRemoveFrom(d, field, id, t) ==
    LET kept == SelectSeq(d[field], LAMBDA e : e.id # id)
        wasRemoved == Len(d[field]) > Len(kept)
    IN  [result |-> IF wasRemoved THEN "true" ELSE "false",
         driver |-> [f \in DOMAIN d |-> IF f = field THEN kept
                                         ELSE IF f = "updatedAt" /\ wasRemoved THEN t
                                         ELSE d[f]]]

\* update(data) applying the new data before the merged record is validated.
DriverUpdateAssignFirst(d, data, t) ==
    LET v == ValidateDriverData(Merge(d, data), t)
    IN  IF v # "ok" THEN [result |-> v, driver |-> Merge(d, data)]
        ELSE [result |-> "ok", driver |-> Merge(Merge(d, data), [updatedAt |-> t])]

\* update(data) at time t: the result and the Driver after the call.
DriverUpdate(d, data, t) ==
    LET mergedData == Merge(d, data)
        v == ValidateDriverData(mergedData, t)
    IN  IF v # "ok" THEN [result |-> v, driver |-> d]
        ELSE [result |-> "ok", driver |-> Merge(Merge(d, data), [updatedAt |-> t])]

-----------------------------------------------------------------------------
(* HoursOfService (src/unnamed/part_003)                                   *)

\* Ticks per hour: REQUIRED_BREAK_TIME = 0.5 hour is one tick.
TicksPerHour == 2
MAX_DRIVING_HOURS_PER_DAY == 11
MAX_DUTY_HOURS_PER_DAY == 14
\* REQUIRED_BREAK_TIME, in ticks.
REQUIRED_BREAK_TIME == 1

\* The largest small hours argument tried, in ticks.
MaxHoursArg == 3
\* The largest break countdown given to HoursOfService.create, in ticks.
MaxBreakArg == 2

\* Hours arguments: a negative one, small ones, and ones past each daily maximum.
HoursArgs ==
    ((0 - 1) .. MaxHoursArg)
        \cup {MAX_DRIVING_HOURS_PER_DAY * TicksPerHour + 1, MAX_DUTY_HOURS_PER_DAY * TicksPerHour + 1}

Max(a, b) == IF a >= b THEN a ELSE b

\* validateHours with the check of the daily driving maximum left out.
ValidateHoursNoDrivingMax(drivingHours, dutyHours, timeUntilBreak) ==
    IF drivingHours < 0 THEN "InvalidHoursOfServiceError"
    ELSE IF dutyHours < 0 THEN "InvalidHoursOfServiceError"
    ELSE IF timeUntilBreak < 0 THEN "InvalidHoursOfServiceError"
    ELSE IF drivingHours > dutyHours THEN "InvalidHoursOfServiceError"
    ELSE IF dutyHours > MAX_DUTY_HOURS_PER_DAY * TicksPerHour THEN "InvalidHoursOfServiceError"
    ELSE "ok"

\* validateHours: "ok", or the error it throws.
ValidateHours(drivingHours, dutyHours, timeUntilBreak) ==
    IF drivingHours < 0 THEN "InvalidHoursOfServiceError"
    ELSE IF dutyHours < 0 THEN "InvalidHoursOfServiceError"
    ELSE IF timeUntilBreak < 0 THEN "InvalidHoursOfServiceError"
    ELSE IF drivingHours > dutyHours THEN "InvalidHoursOfServiceError"
    ELSE IF drivingHours > MAX_DRIVING_HOURS_PER_DAY * TicksPerHour THEN "InvalidHoursOfServiceError"
    ELSE IF dutyHours > MAX_DUTY_HOURS_PER_DAY * TicksPerHour THEN "InvalidHoursOfServiceError"
    ELSE "ok"

HosRec(d, u, t) ==
    [drivingHoursToday |-> d, dutyHoursToday |-> u, timeUntilBreakRequired |-> t]

\* HoursOfService.createDefault
HosCreateDefault == HosRec(0, 0, REQUIRED_BREAK_TIME)

\* addDrivingTime committing the driving total before the candidate is validated.
HosAddDrivingTimeEarlyCommit(h, hours) ==
    LET newDrivingHours == h.drivingHoursToday + hours
        newDutyHours == h.dutyHoursToday + hours
        newTimeUntilBreak == Max(0, h.timeUntilBreakRequired - hours)
        v == ValidateHours(newDrivingHours, newDutyHours, newTimeUntilBreak)
    IN  IF hours < 0 THEN [result |-> "InvalidHoursOfServiceError", hos |-> h]
        ELSE IF v # "ok"
             THEN [result |-> v, hos |-> [h EXCEPT !.drivingHoursToday = newDrivingHours]]
        ELSE [result |-> "ok", hos |-> HosRec(newDrivingHours, newDutyHours, newTimeUntilBreak)]

\* addDrivingTime starting the countdown again once it has run out.
HosAddDrivingTimeRestartsCountdown(h, hours) ==
    LET newDrivingHours == h.drivingHoursToday + hours
        newDutyHours == h.dutyHoursToday + hours
        newTimeUntilBreak == IF h.timeUntilBreakRequired - hours <= 0 THEN REQUIRED_BREAK_TIME
                             ELSE h.timeUntilBreakRequired - hours
        v == ValidateHours(newDrivingHours, newDutyHours, newTimeUntilBreak)
    IN  IF hours < 0 THEN [result |-> "InvalidHoursOfServiceError", hos |-> h]
        ELSE IF v # "ok" THEN [result |-> v, hos |-> h]
        ELSE [result |-> "ok", hos |-> HosRec(newDrivingHours, newDutyHours, newTimeUntilBreak)]

\* addDrivingTime(hours): the result and the counter after the call.
HosAddDrivingTime(h, hours) ==
    LET newDrivingHours == h.drivingHoursToday + hours
        newDutyHours == h.dutyHoursToday + hours
        newTimeUntilBreak == Max(0, h.timeUntilBreakRequired - hours)
        v == ValidateHours(newDrivingHours, newDutyHours, newTimeUntilBreak)
    IN  IF hours < 0 THEN [result |-> "InvalidHoursOfServiceError", hos |-> h]
        ELSE IF v # "ok" THEN [result |-> v, hos |-> h]
        ELSE [result |-> "ok", hos |-> HosRec(newDrivingHours, newDutyHours, newTimeUntilBreak)]

\* addOnDutyTime counting the hours against the break countdown as driving time does.
HosAddOnDutyTimeCountsDown(h, hours) ==
    LET newDutyHours == h.dutyHoursToday + hours
        newTimeUntilBreak == Max(0, h.timeUntilBreakRequired - hours)
        v == ValidateHours(h.drivingHoursToday, newDutyHours, newTimeUntilBreak)
    IN  IF hours < 0 THEN [result |-> "InvalidHoursOfServiceError", hos |-> h]
        ELSE IF v # "ok" THEN [result |-> v, hos |-> h]
        ELSE [result |-> "ok", hos |-> HosRec(h.drivingHoursToday, newDutyHours, newTimeUntilBreak)]

\* addOnDutyTime(hours)
HosAddOnDutyTime(h, hours) ==
    LET newDutyHours == h.dutyHoursToday + hours
        v == ValidateHours(h.drivingHoursToday, newDutyHours, h.timeUntilBreakRequired)
    IN  IF hours < 0 THEN [result |-> "InvalidHoursOfServiceError", hos |-> h]
        ELSE IF v # "ok" THEN [result |-> v, hos |-> h]
        ELSE [result |-> "ok", hos |-> [h EXCEPT !.dutyHoursToday = newDutyHours]]

\* takeBreak giving back as much countdown as the break was long.
HosTakeBreakByLength(h, hours) ==
    IF hours < 0 THEN [result |-> "InvalidHoursOfServiceError", hos |-> h]
    ELSE [result |-> "ok", hos |-> [h EXCEPT !.timeUntilBreakRequired = hours]]

\* takeBreak(hours)
HosTakeBreak(h, hours) ==
    IF hours < 0 THEN [result |-> "InvalidHoursOfServiceError", hos |-> h]
    ELSE [result |-> "ok", hos |-> [h EXCEPT !.timeUntilBreakRequired = REQUIRED_BREAK_TIME]]

\* needsBreak()
HosNeedsBreak(h) == h.timeUntilBreakRequired <= 0

\* resetForNewDay()
HosResetForNewDay(h) ==
    [result |-> "ok", hos |-> HosRec(0, 0, REQUIRED_BREAK_TIME)]

-----------------------------------------------------------------------------
(* Endorsement and Document                                                *)

\* String.toUpperCase on the sample endorsement types.
ToUpperCase(x) == IF x = "h" THEN "H" ELSE IF x = "z" THEN "Z" ELSE x

ENDORSEMENT_VALID_TYPES == {"H", "N", "P", "S", "T", "X"}

DOCUMENT_VALID_TYPES ==
    {"license", "medical_certificate", "twic_card", "training_certificate",
     "employment_verification", "background_check", "drug_test", "other"}

\* Endorsement.validateType
EndorsementTypeOk(type) == ToUpperCase(type) \in ENDORSEMENT_VALID_TYPES

\* Endorsement.create on each element of a list: the first error thrown, or the list made.
EndorsementsCreate(list) ==
    IF \E i \in 1..Len(list) : ~EndorsementTypeOk(list[i].type)
    THEN [result |-> "Invalid endorsement type", list |-> << >>]
    ELSE [result |-> "ok", list |-> [i \in 1..Len(list) |-> [type |-> ToUpperCase(list[i].type)]]]

\* Document.validateType
DocumentTypeOk(type) == type \in DOCUMENT_VALID_TYPES

\* Document.create on each element of a list: the first error thrown, or the list made.
DocumentsCreate(list) ==
    IF \E i \in 1..Len(list) : ~DocumentTypeOk(list[i].fileType)
    THEN [result |-> "Invalid document type", list |-> << >>]
    ELSE [result |-> "ok", list |-> list]

\* files.map(file => Document.create({..., fileType: file.mimetype}))
DocumentsFromFiles(files) ==
    DocumentsCreate([i \in 1..Len(files) |-> [fileName |-> files[i].originalname, fileType |-> files[i].mimetype]])

\* new Endorsement(type, expiryDate)
NewEndorsement(type, expiryDate) ==
    [kind |-> "endorsement", type |-> type, expiryDate |-> expiryDate]

\* Endorsement.create
EndorsementCreate(data) ==
    IF ~EndorsementTypeOk(data.type)
    THEN [result |-> "Invalid endorsement type", entity |-> << >>]
    ELSE [result |-> "ok",
          entity |-> NewEndorsement(ToUpperCase(data.type), Get(data, "expiryDate"))]

\* Endorsement.update, storing the type as it was passed.
EndorsementUpdateKeepsCase(e, data) ==
    IF ~Falsy("type", Get(data, "type")) /\ ~EndorsementTypeOk(data.type)
    THEN [result |-> "Invalid endorsement type", entity |-> e]
    ELSE [result |-> "ok",
          entity |-> Merge(e, [f \in {g \in DOMAIN data : ~Falsy(g, data[g])} |-> data[f]])]

\* Endorsement.update: the type is validated before anything is assigned.
EndorsementUpdate(e, data) ==
    LET type == Get(data, "type")
        expiryDate == Get(data, "expiryDate")
    IN  IF ~Falsy("type", type) /\ ~EndorsementTypeOk(type)
        THEN [result |-> "Invalid endorsement type", entity |-> e]
        ELSE LET e1 == IF Falsy("type", type) THEN e ELSE [e EXCEPT !.type = ToUpperCase(type)]
                 e2 == IF Falsy("expiryDate", expiryDate) THEN e1
                       ELSE [e1 EXCEPT !.expiryDate = expiryDate]
             IN  [result |-> "ok", entity |-> e2]

\* new Document(fileName, fileUrl, fileType)
NewDocument(fileName, fileUrl, fileType) ==
    [kind |-> "document", fileName |-> fileName, fileUrl |-> fileUrl, fileType |-> fileType]

\* Document.create
DocumentCreate(data) ==
    IF ~DocumentTypeOk(data.fileType)
    THEN [result |-> "Invalid document type", entity |-> << >>]
    ELSE [result |-> "ok", entity |-> NewDocument(data.fileName, data.fileUrl, data.fileType)]

\* Document.update: fileName and fileUrl are assigned before fileType is validated.
DocumentUpdate(d, data) ==
    LET fileName == Get(data, "fileName")
        fileUrl == Get(data, "fileUrl")
        fileType == Get(data, "fileType")
        d1 == IF Falsy("fileName", fileName) THEN d ELSE [d EXCEPT !.fileName = fileName]
        d2 == IF Falsy("fileUrl", fileUrl) THEN d1 ELSE [d1 EXCEPT !.fileUrl = fileUrl]
    IN  IF Falsy("fileType", fileType) THEN [result |-> "ok", entity |-> d2]
        ELSE IF ~DocumentTypeOk(fileType) THEN [result |-> "Invalid document type", entity |-> d2]
        ELSE [result |-> "ok", entity |-> [d2 EXCEPT !.fileType = fileType]]

\* A string that is neither undefined nor empty is truthy.
NonEmpty(x) == x # NONE /\ x # ""

\* new EmergencyContact(name, relationship, phone)
NewEmergencyContact(name, relationship, phone) ==
    [kind |-> "contact", name |-> name, relationship |-> relationship, phone |-> phone]

\* EmergencyContact.create: nothing is validated.
EmergencyContactCreate(data) ==
    NewEmergencyContact(Get(data, "name"), Get(data, "relationship"), Get(data, "phone"))

\* EmergencyContact.update: each truthy field of data is assigned.
EmergencyContactUpdate(c, data) ==
    [f \in DOMAIN c |-> IF f \in DOMAIN data /\ NonEmpty(data[f]) THEN data[f] ELSE c[f]]

\* EmergencyContact.isValid: the three fields are truthy and phone.length >= 10.
EmergencyContactIsValid(c) ==
    /\ NonEmpty(c.name)
    /\ NonEmpty(c.relationship)
    /\ NonEmpty(c.phone)
    /\ Len(c.phone) >= 10

-----------------------------------------------------------------------------
(* PrismaDriverRepository and the database                                 *)
(* (src/drivers-service/src/infrastructure/index.ts, src/unnamed/part_000) *)

\* The ids the database generates, in the order it generates them.
IdNames == <<"d1", "d2", "d3", "d4">>
Ids == {IdNames[i] : i \in 1..MaxDrivers}

\* An object without some of its keys.
Without(f, keys) == [k \in DOMAIN f \ keys |-> f[k]]

\* mapToDomainModel(row) at time t: the result, and the Driver that Driver.create returns.
MapToDomainModel(row, t) ==
    LET es == EndorsementsCreate(Get(row, "endorsements"))
        ds == DocumentsCreate(Get(row, "documents"))
        hs == Get(row, "hoursOfService")
        hv == IF hs = << >> THEN "ok"
              ELSE ValidateHours(hs[1].drivingHoursToday, hs[1].dutyHoursToday, hs[1].timeUntilBreakRequired)
        dc == DriverCreate(Merge(Without(row, {"createdAt", "updatedAt"}),
                                 [endorsements |-> es.list, documents |-> ds.list]), t)
    IN  IF es.result # "ok" THEN [result |-> es.result, driver |-> NoDriver]
        ELSE IF ds.result # "ok" THEN [result |-> ds.result, driver |-> NoDriver]
        ELSE IF hv # "ok" THEN [result |-> hv, driver |-> NoDriver]
        ELSE dc

\* mapToPrismaModel(driver): the columns written from a Driver.
MapToPrismaModel(driver) ==
    Without(driver, {"id", "createdAt", "updatedAt", "emergencyContacts", "endorsements",
                     "documents", "hoursOfService", "role"})

\* The tables of the database, empty: Driver rows by id, and the rows of each table that
\* refers to a Driver through its driverId column.
EmptyStore ==
    [driver |-> << >>, emergencyContact |-> << >>, endorsement |-> << >>, document |-> << >>,
     hoursOfService |-> << >>]

\* where: { driverId: id } on a table: its rows of that driver, shown without the column.
Owned(table, id) ==
    LET rows == SelectSeq(table, LAMBDA c : c.driverId = id)
    IN  [i \in 1..Len(rows) |-> Without(rows[i], {"driverId"})]

\* The rows made from a list for the driver id.
WithOwner(list, id) == [i \in 1..Len(list) |-> Merge(list[i], [driverId |-> id])]

\* deleteMany({ where: { driverId: id } })
DeleteMany(table, id) == SelectSeq(table, LAMBDA c : c.driverId # id)

\* A Driver row read with include: { emergencyContacts, endorsements, documents, hoursOfService }.
Row(st, id) ==
    Merge(st.driver[id],
          [emergencyContacts |-> Owned(st.emergencyContact, id),
           endorsements |-> Owned(st.endorsement, id),
           documents |-> Owned(st.document, id),
           hoursOfService |-> Owned(st.hoursOfService, id)])

\* findById(id) at time t, in store st
FindById(st, id, t) ==
    IF id \notin DOMAIN st.driver THEN [result |-> "ok", driver |-> NoDriver]
    ELSE MapToDomainModel(Row(st, id), t)

\* findAll() at time t: every row is mapped, and the first row that cannot be mapped
\* makes the call fail.
FindAll(st, t) ==
    LET mapped == [id \in DOMAIN st.driver |-> MapToDomainModel(Row(st, id), t)]
        failed == {id \in DOMAIN st.driver : mapped[id].result # "ok"}
    IN  IF failed = {} THEN [result |-> "ok", drivers |-> [id \in DOMAIN st.driver |-> mapped[id].driver]]
        ELSE [result |-> mapped[CHOOSE id \in failed : TRUE].result, drivers |-> << >>]

\* findByEmail finding no record whatever the e-mail.
FindByEmailFindsNothing(st, email, t) == [result |-> "ok", driver |-> NoDriver]

\* findByEmail(email): findUnique refuses a where clause with no value.
FindByEmail(st, email, t) ==
    IF email = NONE THEN [result |-> "PrismaClientValidationError", driver |-> NoDriver]
    ELSE IF \E id \in DOMAIN st.driver : st.driver[id].email = email
         THEN MapToDomainModel(Row(st, CHOOSE id \in DOMAIN st.driver : st.driver[id].email = email), t)
    ELSE [result |-> "ok", driver |-> NoDriver]

\* The unique constraint on Driver.email with every write let through.
UniqueEmailNotEnforced(st, id, email) == FALSE

\* The unique constraint on Driver.email: writing email to row id would repeat another row's.
UniqueEmailViolated(st, id, email) ==
    \E other \in DOMAIN st.driver : other # id /\ st.driver[other].email = email

\* create(driver) at time t: the result, the store after it, and the Driver returned.
RepoCreate(st, n, driver, t) ==
    LET id == IdNames[n + 1]
        columns == Merge(MapToPrismaModel(driver), [id |-> id, createdAt |-> t, updatedAt |-> t])
        st2 == [driver |-> [k \in DOMAIN st.driver \cup {id} |->
                                IF k = id THEN columns ELSE st.driver[k]],
                emergencyContact |->
                    st.emergencyContact \o WithOwner(Get(driver, "emergencyContacts"), id),
                endorsement |-> st.endorsement \o WithOwner(Get(driver, "endorsements"), id),
                document |-> st.document \o WithOwner(Get(driver, "documents"), id),
                hoursOfService |-> st.hoursOfService \o WithOwner(<<HosRec(0, 0, 0)>>, id)]
        back == MapToDomainModel(Row(st2, id), t)
    IN  IF UniqueEmailViolated(st, id, Get(driver, "email"))
        THEN [result |-> "Unique constraint failed on the fields: (email)", store |-> st, driver |-> NoDriver]
        ELSE [result |-> back.result, store |-> st2, driver |-> back.driver]

\* update(driver) at time t: the result, the store after it, and the Driver returned.
RepoUpdate(st, driver, t) ==
    LET id == Get(driver, "id")
        columns == Merge(Merge(st.driver[id], MapToPrismaModel(driver)), [updatedAt |-> t])
        st2 == [st EXCEPT
                    !.driver[id] = columns,
                    !.emergencyContact =
                        DeleteMany(@, id) \o WithOwner(Get(driver, "emergencyContacts"), id),
                    !.endorsement = DeleteMany(@, id) \o WithOwner(Get(driver, "endorsements"), id),
                    !.document = @ \o WithOwner(Get(driver, "documents"), id)]
        back == MapToDomainModel(Row(st2, id), t)
    IN  IF id \notin DOMAIN st.driver
        THEN [result |-> "Record to update not found", store |-> st, driver |-> NoDriver]
        ELSE IF UniqueEmailViolated(st, id, Get(driver, "email"))
        THEN [result |-> "Unique constraint failed on the fields: (email)", store |-> st, driver |-> NoDriver]
        ELSE [result |-> back.result, store |-> st2, driver |-> back.driver]

\* The rows of a table that refers to Driver, kept when the driver id is deleted.
OnDeleteNoAction(table, id) == table

\* onDelete: Cascade on a table that refers to Driver: the rows left when id is deleted.
OnDeleteCascade(table, id) == SelectSeq(table, LAMBDA c : c.driverId # id)

\* delete(id) at time t: the result, the store after it, and the Driver returned.
RepoDelete(st, id, t) ==
    LET st2 == [driver |-> Without(st.driver, {id}),
                emergencyContact |-> OnDeleteCascade(st.emergencyContact, id),
                endorsement |-> OnDeleteCascade(st.endorsement, id),
                document |-> OnDeleteCascade(st.document, id),
                hoursOfService |-> OnDeleteCascade(st.hoursOfService, id)]
        back == MapToDomainModel(Row(st, id), t)
    IN  IF id \notin DOMAIN st.driver
        THEN [result |-> "Record to delete does not exist", store |-> st, driver |-> NoDriver]
        ELSE [result |-> back.result, store |-> st2, driver |-> back.driver]

-----------------------------------------------------------------------------
(* DriverController (src/drivers-service/src/infrastructure/api/dtos/      *)
(* update-driver.dto.ts)                                                   *)

\* fileFilter: the MIME types the upload interceptor lets through.
AllowedMimes ==
    {"application/pdf", "image/png", "image/jpeg", "image/jpg",
     "application/vnd.openxmlformats-officedocument.wordprocessingml.document"}

\* mapDriverType
MapDriverType(type) == IF type \in DriverTypes THEN type ELSE "company"

\* mapEmploymentStatus
MapEmploymentStatus(status) == IF status \in EmploymentStatuses THEN status ELSE "active"

\* mapDriverStatus
MapDriverStatus(status) == IF status \in DriverStatuses THEN status ELSE "available"

\* createDriver: the data handed to DriverService.createDriver for a parsed form.
ControllerCreateData(form) ==
    Merge(form,
          [driverType |-> MapDriverType(Get(form, "driverType")),
           employmentStatus |->
               IF Falsy("employmentStatus", Get(form, "employmentStatus")) THEN "active"
               ELSE MapEmploymentStatus(Get(form, "employmentStatus")),
           status |->
               IF Falsy("status", Get(form, "status")) THEN "available"
               ELSE MapDriverStatus(Get(form, "status"))])

\* updateDriver: the data handed to DriverService.updateDriver for a parsed form.
ControllerUpdateData(form) ==
    Merge(form,
          [f \in {g \in {"driverType", "employmentStatus", "status"} : ~Falsy(g, Get(form, g))} |->
              IF f = "driverType" THEN MapDriverType(form[f])
              ELSE IF f = "employmentStatus" THEN MapEmploymentStatus(form[f])
              ELSE MapDriverStatus(form[f])])

-----------------------------------------------------------------------------
(* DriverService (src/drivers-service/src/application/application.module.ts) *)

\* createDriver after the e-mail check, up to the call of the repository:
\* the result and the Driver built.
ServiceCreatePrepare(driverData, files, t) ==
    LET driverBaseData == Without(driverData, {"emergencyContacts", "endorsements"})
        dc == DriverCreate(Merge(driverBaseData, [status |-> "available"]), t)
        es == EndorsementsCreate(Get(driverData, "endorsements"))
        ds == DocumentsFromFiles(files)
        d1 == IF Len(Get(driverData, "emergencyContacts")) > 0
              THEN Merge(dc.driver, [emergencyContacts |-> driverData.emergencyContacts])
              ELSE dc.driver
        d2 == IF Len(Get(driverData, "endorsements")) > 0
              THEN Merge(d1, [endorsements |-> es.list]) ELSE d1
        d3 == Merge(d2, [hoursOfService |-> <<HosRec(0, 0, 0)>>])
        d4 == IF Len(files) > 0 THEN Merge(d3, [documents |-> ds.list]) ELSE d3
    IN  IF dc.result # "ok" THEN [result |-> dc.result, driver |-> NoDriver]
        ELSE IF es.result # "ok" THEN [result |-> es.result, driver |-> d1]
        ELSE IF ds.result # "ok" THEN [result |-> ds.result, driver |-> d3]
        ELSE [result |-> "ok", driver |-> d4]

\* updateDriver after the e-mail check, up to the call of the repository:
\* the result and the loaded Driver as the handler leaves it.
ServiceUpdatePrepare(existingDriver, driverData, files, t) ==
    LET driverBaseData == Without(driverData, {"emergencyContacts", "endorsements"})
        du == DriverUpdate(existingDriver, driverBaseData, t)
        es == EndorsementsCreate(Get(driverData, "endorsements"))
        ds == DocumentsFromFiles(files)
        d1 == IF "emergencyContacts" \in DOMAIN driverData
              THEN Merge(du.driver, [emergencyContacts |-> driverData.emergencyContacts])
              ELSE du.driver
        d2 == IF "endorsements" \in DOMAIN driverData
              THEN Merge(d1, [endorsements |-> es.list]) ELSE d1
        d3 == IF Len(files) > 0
              THEN Merge(d2, [documents |-> Get(d2, "documents") \o ds.list]) ELSE d2
    IN  IF du.result # "ok" THEN [result |-> du.result, driver |-> du.driver]
        ELSE IF "endorsements" \in DOMAIN driverData /\ es.result # "ok"
             THEN [result |-> es.result, driver |-> d1]
        ELSE IF Len(files) > 0 /\ ds.result # "ok" THEN [result |-> ds.result, driver |-> d2]
        ELSE [result |-> "ok", driver |-> d3]

-----------------------------------------------------------------------------
(* The service: requests run their handlers, one step for each access to   *)
(* the database.  The clock stands still while requests are served.        *)

\* The slots in which requests run.
Slots == {"r1", "r2"}

IdleReq ==
    [pc |-> "idle", op |-> "none", id |-> NONE, data |-> << >>, files |-> << >>, text |-> NONE,
     loaded |-> NoDriver, local |-> NoDriver, returned |-> NoDriver, result |-> "ok",
     invoked |-> FALSE, before |-> EmptyStore]

\* What is kept of the request answered last when it assigned a load: the driver, the
\* load, and the driver's row as it was before the request.
NoPrev == [op |-> "none", id |-> NONE, text |-> NONE, row |-> << >>]

SvcIdle ==
    /\ store = EmptyStore
    /\ nextId = 0
    /\ req = [r \in Slots |-> IdleReq]
    /\ prev = NoPrev

-----------------------------------------------------------------------------
(* The Driver entity used on its own: a record is created, then changed by *)
(* its methods while the clock advances.                                   *)

\* The form fields the integration test posts: every required field but driverType.
HassanForm ==
    [firstName |-> "Hassan", lastName |-> "Kharal", dob |-> StartTime - 29 * DaysPerYear,
     phonePrimary |-> "519-980-6545", email |-> "a@x.com", licenseNumber |-> "HK876898",
     licenseState |-> "AK", licenseClass |-> "Class A", licenseExpiry |-> StartTime + 1,
     medCertExpiry |-> StartTime + 1, hireDate |-> StartTime - 2]

\* A complete, valid set of creation fields.
BaseData == Merge(HassanForm, [driverType |-> "company"])

\* Creation data given to Driver.create directly.
EntCreateInputs ==
    {Merge(BaseData, x) : x \in
        {<< >>,
         [status |-> "driving"],
         [employmentStatus |-> "leave", status |-> "away"],
         [licenseExpiry |-> StartTime - 1],
         [medCertExpiry |-> StartTime + 3, licenseExpiry |-> StartTime + 3],
         [driverType |-> "contractor"],
         [firstName |-> NONE]}}

\* Partial data given to Driver.update directly.
EntUpdateInputs ==
    {<< >>,
     [firstName |-> "Omar"],
     [licenseExpiry |-> StartTime + 3],
     [firstName |-> "Omar", licenseExpiry |-> StartTime - 1],
     [notes |-> "renewed", medCertExpiry |-> StartTime - 1],
     [lastName |-> "Khan", driverType |-> "contractor"],
     [lastName |-> NONE],
     [notes |-> "renewed", employmentStatus |-> "retired"],
     [email |-> "not-an-email", notes |-> "renewed"]}

NoCall == [op |-> "none", data |-> << >>, text |-> NONE, pre |-> NoDriver, at |-> StartTime, result |-> "ok"]

EntCall(op, data, text, result, driver) ==
    /\ ent' = driver
    /\ entLast' = [op |-> op, data |-> data, text |-> text, pre |-> ent, at |-> now, result |-> result]
    /\ UNCHANGED <<now, hosVars, svcVars, auxVars>>

\* Driver.create(data); a create that throws leaves the object held as it was.
EntCreate ==
    \E data \in EntCreateInputs :
        LET r == DriverCreate(data, now)
        IN  EntCall("create", data, NONE, r.result, IF r.result = "ok" THEN r.driver ELSE ent)

EntUpdate ==
    /\ ent # NoDriver
    /\ \E data \in EntUpdateInputs :
            LET r == DriverUpdate(ent, data, now)
            IN  EntCall("update", data, NONE, r.result, r.driver)

EntUpdateStatus ==
    /\ ent # NoDriver
    /\ \E status \in {"on-break"} :
            EntCall("updateStatus", << >>, status, "ok", DriverUpdateStatus(ent, status, now))

EntAssignLoad ==
    /\ ent # NoDriver
    /\ \E loadId \in {"L1"} :
            EntCall("assignLoad", << >>, loadId, "ok", DriverAssignLoad(ent, loadId, now))

EntCompleteLoad ==
    /\ ent # NoDriver
    /\ EntCall("completeLoad", << >>, NONE, "ok", DriverCompleteLoad(ent, now))

\* Time passes.
EntTick ==
    /\ now < StartTime + MaxTicks
    /\ now' = now + 1
    /\ UNCHANGED <<entVars, hosVars, svcVars, auxVars>>

\* No call of checkCredentialStatus made yet.
NoCred == [threshold |-> 0, at |-> StartTime, driver |-> NoDriver, result |-> << >>]

\* No call made yet on an Endorsement or a Document.
NoSubCall == [op |-> "none", data |-> << >>, pre |-> << >>, result |-> "ok"]

AuxIdle == cred = NoCred /\ sub = << >> /\ subLast = NoSubCall

EntIdle == ent = NoDriver /\ entLast = NoCall /\ AuxIdle

HosIdle ==
    /\ hos = [drivingHoursToday |-> 0, dutyHoursToday |-> 0, timeUntilBreakRequired |-> 0]
    /\ hosLast = [op |-> "none", hours |-> 0, pre |-> hos, result |-> "ok"]

EntInit ==
    /\ now = StartTime
    /\ EntIdle
    /\ HosIdle
    /\ SvcIdle

EntNext ==
    \/ EntCreate
    \/ EntUpdate
    \/ EntUpdateStatus
    \/ EntAssignLoad
    \/ EntCompleteLoad
    \/ EntTick

SpecEntity == EntInit /\ [][EntNext]_vars

-----------------------------------------------------------------------------
(* The employment lifecycle of a Driver: a record is created, then         *)
(* terminated, put on leave and returned from leave in any order.          *)

LifeCreateInputs ==
    {Merge(BaseData, x) : x \in
        {<< >>,
         [notes |-> "renewed"],
         [status |-> "driving", loadId |-> "L1"],
         [employmentStatus |-> "leave", status |-> "away", notes |-> "renewed"],
         [employmentStatus |-> "terminated", status |-> "off-duty"]}}

NoteLabels == {"Termination", "Leave"}

NoteArgs == {"policy violation", "surgery"}

\* The notes texts a record can have after at most k notes were appended.
RECURSIVE NotesAfter(_)
NotesAfter(k) ==
    IF k = 0 THEN {NONE, "renewed"}
    ELSE LET p == NotesAfter(k - 1)
         IN  p \cup {AppendNote(x, l, n) : x \in p, l \in NoteLabels, n \in NoteArgs}

\* A call with these notes keeps the notes field of d within MaxNotes appended notes.
NotesFit(d, notes) == Falsy("notes", notes) \/ Get(d, "notes") \in NotesAfter(MaxNotes - 1)

LifeCreate ==
    /\ ent = NoDriver
    /\ \E data \in LifeCreateInputs :
            LET r == DriverCreate(data, now)
            IN  EntCall("create", data, NONE, r.result, r.driver)

LifeTerminate ==
    /\ ent # NoDriver
    /\ \E notes \in {NONE, "policy violation"} :
            /\ NotesFit(ent, notes)
            /\ EntCall("terminate", << >>, notes, "ok", DriverTerminate(ent, notes, now))

LifePutOnLeave ==
    /\ ent # NoDriver
    /\ \E notes \in {NONE, "surgery"} :
            /\ NotesFit(ent, notes)
            /\ EntCall("putOnLeave", << >>, notes, "ok", DriverPutOnLeave(ent, notes, now))

LifeReturnFromLeave ==
    /\ ent # NoDriver
    /\ EntCall("returnFromLeave", << >>, NONE, "ok", DriverReturnFromLeave(ent, now))

LifeNext ==
    \/ LifeCreate
    \/ LifeTerminate
    \/ LifePutOnLeave
    \/ LifeReturnFromLeave

SpecLife == EntInit /\ [][LifeNext]_vars

-----------------------------------------------------------------------------
(* The credential check: a Driver is created with expiry dates near the    *)
(* clock and near the threshold, and checked as time passes.               *)

\* Thresholds in days; 30 is the default of checkCredentialStatus.
Thresholds == {0, 10, 30}

CredExpiries == {StartTime, StartTime + 10, StartTime + 30, StartTime + 31}

CredCreateInputs ==
    {Merge(Merge(BaseData, [licenseExpiry |-> l, medCertExpiry |-> mc]), tw) :
        l \in CredExpiries, mc \in {StartTime + 1, StartTime + 31},
        tw \in {<< >>, [twicExpiry |-> StartTime - 1], [twicExpiry |-> StartTime + 30]}}

CredCreate ==
    /\ ent = NoDriver
    /\ \E data \in CredCreateInputs :
            LET r == DriverCreate(data, now)
            IN  EntCall("create", data, NONE, r.result, r.driver)

CredCheck ==
    /\ ent # NoDriver
    /\ \E daysThreshold \in Thresholds :
            cred' = [threshold |-> daysThreshold, at |-> now, driver |-> ent,
                     result |-> CheckCredentialStatus(ent, daysThreshold, now)]
    /\ UNCHANGED <<now, entVars, hosVars, svcVars, sub, subLast>>

CredNext ==
    \/ CredCreate
    \/ CredCheck
    \/ EntTick

SpecCred == EntInit /\ [][CredNext]_vars

-----------------------------------------------------------------------------
(* The date rules of validateDriverData: records are created and updated   *)
(* with birth dates at the ends of the birth years allowed and with expiry *)
(* dates around the clock.                                                 *)

FirstDayOfYear(y) == y * DaysPerYear

LastDayOfYear(y) == y * DaysPerYear + DaysPerYear - 1

\* Birth dates of people who are 20, 21, 80 and 81 years old at StartTime.
BirthDates ==
    {LastDayOfYear(YearOf(StartTime) - 21), FirstDayOfYear(YearOf(StartTime) - 21),
     FirstDayOfYear(YearOf(StartTime) - 80), LastDayOfYear(YearOf(StartTime) - 81),
     FirstDayOfYear(YearOf(StartTime) - 20), StartTime - 81 * DaysPerYear}

DateCreateInputs ==
    {Merge(BaseData, x) : x \in
        {<< >>,
         [licenseExpiry |-> StartTime],
         [medCertExpiry |-> StartTime],
         [licenseExpiry |-> StartTime - 1],
         [medCertExpiry |-> StartTime - 1]}
        \cup {[dob |-> b] : b \in BirthDates}}

DateUpdateInputs ==
    {[firstName |-> "Omar"],
     [licenseExpiry |-> StartTime + 1],
     [licenseExpiry |-> StartTime, notes |-> "renewed"],
     [medCertExpiry |-> StartTime + 1],
     [medCertExpiry |-> StartTime, notes |-> "renewed"]}
        \cup {[dob |-> b] : b \in BirthDates}

DateCreate ==
    \E data \in DateCreateInputs :
        LET r == DriverCreate(data, now)
        IN  EntCall("create", data, NONE, r.result, IF r.result = "ok" THEN r.driver ELSE ent)

DateUpdate ==
    /\ ent # NoDriver
    /\ \E data \in DateUpdateInputs :
            LET r == DriverUpdate(ent, data, now)
            IN  EntCall("update", data, NONE, r.result, r.driver)

DateNext ==
    \/ DateCreate
    \/ DateUpdate
    \/ EntTick

SpecDates == EntInit /\ [][DateNext]_vars

-----------------------------------------------------------------------------
(* An Endorsement or a Document used on its own: it is created, then       *)
(* updated any number of times.                                            *)

\* The type strings passed: valid ones in both cases, and ones that are not codes.
EndorsementTypeArgs == {"h", "H", "N", "X", "z", "Z"}

EndorsementCreateInputs ==
    {[type |-> t] : t \in EndorsementTypeArgs}
        \cup {[type |-> t, expiryDate |-> StartTime + 1] : t \in {"h", "Z"}}

EndorsementUpdateInputs ==
    {[type |-> t] : t \in EndorsementTypeArgs}
        \cup {[expiryDate |-> StartTime + 2]}
        \cup {[type |-> t, expiryDate |-> StartTime + 2] : t \in {"N", "Z"}}

DocumentTypeArgs == {"license", "other", "application/pdf"}

DocumentCreateInputs ==
    {[fileName |-> "cdl.pdf", fileUrl |-> "/files/cdl.pdf", fileType |-> t] : t \in DocumentTypeArgs}

DocumentUpdateInputs ==
    {[fileType |-> t] : t \in DocumentTypeArgs}
        \cup {[fileName |-> "new.pdf", fileType |-> t] : t \in DocumentTypeArgs}
        \cup {[fileUrl |-> "/files/new.pdf", fileType |-> t] : t \in DocumentTypeArgs}
        \cup {[fileName |-> "new.pdf"], [fileName |-> "cdl.pdf", fileUrl |-> "/files/cdl.pdf"]}

\* A call on an Endorsement or a Document: what it was given, the entity before, what it made.
SubCall(op, data, r) ==
    /\ sub' = r.entity
    /\ subLast' = [op |-> op, data |-> data, pre |-> sub, result |-> r.result]
    /\ UNCHANGED <<now, entVars, hosVars, svcVars, cred>>

SubEndorsementCreate ==
    \E data \in EndorsementCreateInputs :
        LET r == EndorsementCreate(data)
        IN  SubCall("Endorsement.create", data, IF r.result = "ok" THEN r ELSE [r EXCEPT !.entity = sub])

SubEndorsementUpdate ==
    /\ sub # << >>
    /\ sub.kind = "endorsement"
    /\ \E data \in EndorsementUpdateInputs :
            SubCall("Endorsement.update", data, EndorsementUpdate(sub, data))

SubDocumentCreate ==
    \E data \in DocumentCreateInputs :
        LET r == DocumentCreate(data)
        IN  SubCall("Document.create", data, IF r.result = "ok" THEN r ELSE [r EXCEPT !.entity = sub])

SubDocumentUpdate ==
    /\ sub # << >>
    /\ sub.kind = "document"
    /\ \E data \in DocumentUpdateInputs :
            SubCall("Document.update", data, DocumentUpdate(sub, data))

SubNext ==
    \/ SubEndorsementCreate
    \/ SubEndorsementUpdate
    \/ SubDocumentCreate
    \/ SubDocumentUpdate

SpecSub == EntInit /\ [][SubNext]_vars

-----------------------------------------------------------------------------
(* An EmergencyContact used on its own: created, updated and asked whether *)
(* it is valid.                                                            *)

\* Phone strings: ten digits, ten digits with separators, ten characters of which
\* eight are digits, nine digits, ten characters with no digit, and the empty string.
ContactPhones == {"5199806545", "519-980-6545", "519-980-65", "519980654", "0", "see mother", ""}

ContactCreateInputs ==
    {[name |-> n, relationship |-> rel, phone |-> p] :
        n \in {"Sara", ""}, rel \in {"spouse", ""}, p \in ContactPhones}
        \cup {[name |-> "Sara", phone |-> "5199806545"]}

ContactUpdateInputs ==
    {[phone |-> p] : p \in ContactPhones} \cup {[name |-> "Omar", relationship |-> ""]}

ContactCreate ==
    \E data \in ContactCreateInputs :
        SubCall("EmergencyContact.create", data,
                [result |-> "ok", entity |-> EmergencyContactCreate(data)])

ContactUpdate ==
    /\ sub # << >>
    /\ sub.kind = "contact"
    /\ \E data \in ContactUpdateInputs :
            SubCall("EmergencyContact.update", data,
                    [result |-> "ok", entity |-> EmergencyContactUpdate(sub, data)])

\* isValid(): the answer is kept as the result of the call.
ContactIsValid ==
    /\ sub # << >>
    /\ sub.kind = "contact"
    /\ SubCall("EmergencyContact.isValid", << >>,
               [result |-> IF EmergencyContactIsValid(sub) THEN "true" ELSE "false",
                entity |-> sub])

ContactNext ==
    \/ ContactCreate
    \/ ContactUpdate
    \/ ContactIsValid

SpecContact == EntInit /\ [][ContactNext]_vars

-----------------------------------------------------------------------------
(* The owned collections of a Driver: elements are added and removed by id *)
(* while time passes.                                                      *)

\* The longest collection built.
MaxElems == 2

\* Elements as they come back from the database, with their ids; the elements of a
\* collection may carry the same id.
CollectionElements ==
    [emergencyContacts |->
        {[id |-> i, name |-> n, relationship |-> "spouse", phone |-> "519-980-6545"] :
            i \in {1, 2}, n \in {"Sara"}},
     endorsements |-> {[id |-> i, type |-> "H"] : i \in {1}},
     documents |-> {[id |-> i, fileName |-> "cdl.pdf", fileUrl |-> "/files/cdl.pdf",
                     fileType |-> "license"] : i \in {"doc1"}}]

\* The ids asked to be removed: the ids in use and one that no element has.
CollectionIds ==
    [emergencyContacts |-> {1, 2, 3}, endorsements |-> {1, 3}, documents |-> {"doc1", "doc3"}]

AddOps ==
    [emergencyContacts |-> "addEmergencyContact", endorsements |-> "addEndorsement",
     documents |-> "addDocument"]

RemoveOps ==
    [emergencyContacts |-> "removeEmergencyContact", endorsements |-> "removeEndorsement",
     documents |-> "removeDocument"]

CollCreate ==
    /\ ent = NoDriver
    /\ LET r == DriverCreate(BaseData, now)
       IN  EntCall("create", BaseData, NONE, r.result, r.driver)

CollAdd ==
    /\ ent # NoDriver
    /\ \E field \in DOMAIN AddOps :
        /\ Len(ent[field]) < MaxElems
        /\ \E element \in CollectionElements[field] :
            EntCall(AddOps[field], element, field, "ok", DriverAddTo(ent, field, element, now))

CollRemove ==
    /\ ent # NoDriver
    /\ \E field \in DOMAIN RemoveOps :
        \E id \in CollectionIds[field] :
            LET r == DriverRemoveFrom(ent, field, id, now)
            IN  EntCall(RemoveOps[field], [id |-> id], field, r.result, r.driver)

CollNext ==
    \/ CollCreate
    \/ CollAdd
    \/ CollRemove
    \/ EntTick

SpecCollections == EntInit /\ [][CollNext]_vars

-----------------------------------------------------------------------------
(* The HoursOfService counter used on its own                              *)

HosCall(op, hours, r) ==
    /\ hos' = r.hos
    /\ hosLast' = [op |-> op, hours |-> hours, pre |-> hos, result |-> r.result]
    /\ UNCHANGED <<now, entVars, svcVars, auxVars>>

\* HoursOfService.create(data): a rejected create leaves the counter in use as it was.
HosCreate ==
    \E d \in {0 - 1, 0, 1, MAX_DRIVING_HOURS_PER_DAY * TicksPerHour, MAX_DUTY_HOURS_PER_DAY * TicksPerHour + 1},
       u \in {0 - 1, 0, 1, MAX_DUTY_HOURS_PER_DAY * TicksPerHour, MAX_DUTY_HOURS_PER_DAY * TicksPerHour + 1},
       t \in (0 - 1) .. MaxBreakArg :
        LET v == ValidateHours(d, u, t)
        IN  HosCall("create", 0, [result |-> v, hos |-> IF v = "ok" THEN HosRec(d, u, t) ELSE hos])

HosCreateDefaultCall == HosCall("createDefault", 0, [result |-> "ok", hos |-> HosCreateDefault])

AddDrivingTime == \E hours \in HoursArgs : HosCall("addDrivingTime", hours, HosAddDrivingTime(hos, hours))

AddOnDutyTime == \E hours \in HoursArgs : HosCall("addOnDutyTime", hours, HosAddOnDutyTime(hos, hours))

TakeBreak == \E hours \in HoursArgs : HosCall("takeBreak", hours, HosTakeBreak(hos, hours))

ResetForNewDay == HosCall("resetForNewDay", 0, HosResetForNewDay(hos))

HosInit ==
    /\ now = StartTime
    /\ EntIdle
    /\ SvcIdle
    /\ hos = HosCreateDefault
    /\ hosLast = [op |-> "createDefault", hours |-> 0, pre |-> HosCreateDefault, result |-> "ok"]

HosNext ==
    \/ HosCreate
    \/ HosCreateDefaultCall
    \/ AddDrivingTime
    \/ AddOnDutyTime
    \/ TakeBreak
    \/ ResetForNewDay

SpecHos == HosInit /\ [][HosNext]_vars

-----------------------------------------------------------------------------
(* The requests of the service                                             *)

AlreadyExists == "A driver with email already exists"
NotFound == "Driver not found"
NotAvailable == "Driver is not available for assignment"
NoLoadAssigned == "Driver does not have a load assigned"
NotOnLeave == "Driver is not on leave"

\* A request handler moves on: its slot changes, the database does not.
Local(r, rec) ==
    /\ req' = [req EXCEPT ![r] = rec]
    /\ UNCHANGED <<store, nextId, prev, now, entVars, hosVars, auxVars>>

\* A request handler returns from a write to the database.
Wrote(r, w) ==
    /\ store' = w.store
    /\ nextId' = IF DOMAIN w.store.driver \subseteq DOMAIN store.driver THEN nextId ELSE nextId + 1
    /\ req' = [req EXCEPT ![r] = [@ EXCEPT !.pc = "done", !.result = w.result,
                                           !.returned = w.driver, !.invoked = TRUE]]
    /\ UNCHANGED <<prev, now, entVars, hosVars, auxVars>>

Begin(op, id, data, files, text) ==
    [IdleReq EXCEPT !.op = op, !.id = id, !.data = data, !.files = files, !.text = text,
                    !.before = store]

Fail(rec, result) == [rec EXCEPT !.pc = "done", !.result = result]

\* POST /drivers, up to the write: the controller maps the form, the service
\* looks the e-mail up and builds the Driver.
CreateDriverStart(r, requests) ==
    /\ req[r].pc = "idle"
    /\ nextId + Cardinality({q \in Slots : req[q].pc = "create"}) < MaxDrivers
    /\ \E rq \in requests :
        LET driverData == ControllerCreateData(rq.form)
            existingDriver == FindByEmail(store, Get(driverData, "email"), now)
            p == ServiceCreatePrepare(driverData, rq.files, now)
            b == Begin("createDriver", NONE, rq.form, rq.files, NONE)
        IN  Local(r, IF existingDriver.result # "ok" THEN Fail(b, existingDriver.result)
                     ELSE IF existingDriver.driver # NoDriver THEN Fail(b, AlreadyExists)
                     ELSE IF p.result # "ok" THEN Fail([b EXCEPT !.local = p.driver], p.result)
                     ELSE [b EXCEPT !.pc = "create", !.local = p.driver])

\* createDriver: this.driverRepository.create(driver)
CreateDriverWrite(r) ==
    /\ req[r].pc = "create"
    /\ Wrote(r, RepoCreate(store, nextId, req[r].local, now))

\* updateDriver from the e-mail check on, for the Driver loaded.
UpdateDriverApply(rec, existingDriver) ==
    LET p == ServiceUpdatePrepare(existingDriver, ControllerUpdateData(rec.data), rec.files, now)
    IN  IF p.result # "ok" THEN Fail([rec EXCEPT !.local = p.driver], p.result)
        ELSE [rec EXCEPT !.pc = "update", !.local = p.driver]

\* PUT /drivers/:id, up to the next access to the database.
UpdateDriverStart(r, ids, requests) ==
    /\ req[r].pc = "idle"
    /\ \E id \in ids, rq \in requests :
        LET driverData == ControllerUpdateData(rq.form)
            existingDriver == FindById(store, id, now)
            b == Begin("updateDriver", id, rq.form, rq.files, NONE)
            l == [b EXCEPT !.loaded = existingDriver.driver, !.local = existingDriver.driver]
        IN  Local(r, IF existingDriver.result # "ok" THEN Fail(b, existingDriver.result)
                     ELSE IF existingDriver.driver = NoDriver THEN Fail(b, NotFound)
                     ELSE IF /\ ~Falsy("email", Get(driverData, "email"))
                             /\ driverData.email # existingDriver.driver.email
                          THEN [l EXCEPT !.pc = "findByEmail"]
                     ELSE UpdateDriverApply(l, existingDriver.driver))

\* updateDriver: the look-up of the new e-mail, then the changes in memory.
UpdateDriverCheckEmail(r) ==
    /\ req[r].pc = "findByEmail"
    /\ LET driverData == ControllerUpdateData(req[r].data)
           driverWithEmail == FindByEmail(store, driverData.email, now)
       IN  Local(r, IF driverWithEmail.result # "ok" THEN Fail(req[r], driverWithEmail.result)
                    ELSE IF /\ driverWithEmail.driver # NoDriver
                            /\ driverWithEmail.driver.id # req[r].id
                         THEN Fail(req[r], AlreadyExists)
                    ELSE UpdateDriverApply(req[r], req[r].loaded))

\* this.driverRepository.update(driver), the last step of every changing handler.
RepositoryUpdate(r) ==
    /\ req[r].pc = "update"
    /\ Wrote(r, RepoUpdate(store, req[r].local, now))

\* assignLoad with the availability guard left out.
ServiceAssignLoadUnguarded(driver, loadId, t) ==
    [result |-> "ok", driver |-> DriverAssignLoad(driver, loadId, t)]

\* assignLoad between findById and the write: the result and the Driver in memory.
ServiceAssignLoad(driver, loadId, t) ==
    IF ~IsAvailable(driver) THEN [result |-> NotAvailable, driver |-> driver]
    ELSE [result |-> "ok", driver |-> DriverAssignLoad(driver, loadId, t)]

\* completeLoad with the check for an assigned load left out.
ServiceCompleteLoadUnguarded(driver, t) ==
    [result |-> "ok", driver |-> DriverCompleteLoad(driver, t)]

\* completeLoad between findById and the write.
ServiceCompleteLoad(driver, t) ==
    IF Falsy("loadId", Get(driver, "loadId")) THEN [result |-> NoLoadAssigned, driver |-> driver]
    ELSE [result |-> "ok", driver |-> DriverCompleteLoad(driver, t)]

\* A handler that loads one driver and changes it in memory: driver is what findById
\* returned, s the outcome of the change for the Driver found.
LoadAndChange(r, b, driver, s) ==
    LET l == [b EXCEPT !.loaded = driver.driver, !.local = driver.driver]
    IN  Local(r, IF driver.result # "ok" THEN Fail(b, driver.result)
                 ELSE IF driver.driver = NoDriver THEN Fail(b, NotFound)
                 ELSE IF s.result # "ok" THEN Fail([l EXCEPT !.local = s.driver], s.result)
                 ELSE [l EXCEPT !.pc = "update", !.local = s.driver])

AssignLoadStart(r, ids, loads) ==
    /\ req[r].pc = "idle"
    /\ \E id \in ids, loadId \in loads :
        LET driver == FindById(store, id, now)
        IN  LoadAndChange(r, Begin("assignLoad", id, << >>, << >>, loadId), driver,
                          ServiceAssignLoad(driver.driver, loadId, now))

CompleteLoadStart(r, ids) ==
    /\ req[r].pc = "idle"
    /\ \E id \in ids :
        LET driver == FindById(store, id, now)
        IN  LoadAndChange(r, Begin("completeLoad", id, << >>, << >>, NONE), driver,
                          ServiceCompleteLoad(driver.driver, now))

UpdateDriverStatusStart(r, ids, statuses) ==
    /\ req[r].pc = "idle"
    /\ \E id \in ids, status \in statuses :
        LET driver == FindById(store, id, now)
        IN  LoadAndChange(r, Begin("updateDriverStatus", id, << >>, << >>, status), driver,
                          [result |-> "ok",
                           driver |-> DriverUpdateStatus(driver.driver, MapDriverStatus(status), now)])

\* returnDriverFromLeave with the check of the employment status left out.
ServiceReturnFromLeaveUnguarded(driver, t) ==
    [result |-> "ok", driver |-> DriverReturnFromLeave(driver, t)]

\* returnDriverFromLeave between findById and the write.
ServiceReturnFromLeave(driver, t) ==
    IF Get(driver, "employmentStatus") # "leave" THEN [result |-> NotOnLeave, driver |-> driver]
    ELSE [result |-> "ok", driver |-> DriverReturnFromLeave(driver, t)]

TerminateDriverStart(r, ids, notesArgs) ==
    /\ req[r].pc = "idle"
    /\ \E id \in ids, notes \in notesArgs :
        LET driver == FindById(store, id, now)
        IN  /\ NotesFit(driver.driver, notes)
            /\ LoadAndChange(r, Begin("terminateDriver", id, << >>, << >>, notes), driver,
                             [result |-> "ok", driver |-> DriverTerminate(driver.driver, notes, now)])

PutDriverOnLeaveStart(r, ids, notesArgs) ==
    /\ req[r].pc = "idle"
    /\ \E id \in ids, notes \in notesArgs :
        LET driver == FindById(store, id, now)
        IN  /\ NotesFit(driver.driver, notes)
            /\ LoadAndChange(r, Begin("putDriverOnLeave", id, << >>, << >>, notes), driver,
                             [result |-> "ok", driver |-> DriverPutOnLeave(driver.driver, notes, now)])

ReturnDriverFromLeaveStart(r, ids) ==
    /\ req[r].pc = "idle"
    /\ \E id \in ids :
        LET driver == FindById(store, id, now)
        IN  LoadAndChange(r, Begin("returnDriverFromLeave", id, << >>, << >>, NONE), driver,
                          ServiceReturnFromLeave(driver.driver, now))

\* deleteDriver up to the write: the record must exist.
DeleteDriverStart(r, ids) ==
    /\ req[r].pc = "idle"
    /\ \E id \in ids :
        LET existingDriver == FindById(store, id, now)
            b == Begin("deleteDriver", id, << >>, << >>, NONE)
        IN  Local(r, IF existingDriver.result # "ok" THEN Fail(b, existingDriver.result)
                     ELSE IF existingDriver.driver = NoDriver THEN Fail(b, NotFound)
                     ELSE [b EXCEPT !.pc = "delete", !.loaded = existingDriver.driver])

\* deleteDriver: this.driverRepository.delete(id)
DeleteDriverWrite(r) ==
    /\ req[r].pc = "delete"
    /\ Wrote(r, RepoDelete(store, req[r].id, now))

\* The response is sent.
Respond(r) ==
    /\ req[r].pc = "done"
    /\ prev' = IF req[r].op = "assignLoad" /\ req[r].result = "ok"
               THEN [op |-> req[r].op, id |-> req[r].id, text |-> req[r].text,
                     row |-> Row(req[r].before, req[r].id)]
               ELSE NoPrev
    /\ req' = [req EXCEPT ![r] = IdleReq]
    /\ UNCHANGED <<store, nextId, now, entVars, hosVars, auxVars>>

SvcInit ==
    /\ now = StartTime
    /\ EntIdle
    /\ HosIdle
    /\ SvcIdle

-----------------------------------------------------------------------------
(* Requests served one after the other                                     *)

File(name, mime) == [originalname |-> name, mimetype |-> mime]

\* Creation requests: the form as parseFormData returns it, and the files uploaded.
CreateRequests ==
    {[form |-> Merge(HassanForm, x), files |-> << >>] : x \in
        {<< >>,
         [email |-> "b@x.com"],
         [email |-> "b@x.com", firstName |-> "Omar", licenseExpiry |-> StartTime - 1],
         [licenseExpiry |-> StartTime - 1],
         [email |-> NONE]}}
    \cup {[form |-> HassanForm, files |-> <<File("cdl.pdf", "application/pdf")>>]}

\* Update requests.
UpdateRequests ==
    {[form |-> x, files |-> << >>] : x \in
        {[email |-> "a@x.com"],
         [email |-> "b@x.com"],
         [notes |-> "renewed"],
         [notes |-> "renewed", licenseExpiry |-> StartTime - 1],
         [notes |-> "renewed", endorsements |-> <<[type |-> "Z"]>>],
         [endorsements |-> <<[type |-> "h"]>>]}}
    \cup {[form |-> [notes |-> "renewed"], files |-> <<File("cdl.pdf", "application/pdf")>>]}

Loads == {"L1"}

Statuses == {"on-break"}

SeqSlot == "r1"

CreateDriver == CreateDriverStart(SeqSlot, CreateRequests)
CreateDriverCommit == CreateDriverWrite(SeqSlot)
UpdateDriver == UpdateDriverStart(SeqSlot, Ids, UpdateRequests)
UpdateDriverEmail == UpdateDriverCheckEmail(SeqSlot)
SaveDriver == RepositoryUpdate(SeqSlot)
AssignLoad == AssignLoadStart(SeqSlot, Ids, Loads)
CompleteLoad == CompleteLoadStart(SeqSlot, Ids)
UpdateDriverStatus == UpdateDriverStatusStart(SeqSlot, Ids, Statuses)
SendResponse == Respond(SeqSlot)

Next ==
    \/ CreateDriver
    \/ CreateDriverCommit
    \/ UpdateDriver
    \/ UpdateDriverEmail
    \/ SaveDriver
    \/ AssignLoad
    \/ CompleteLoad
    \/ UpdateDriverStatus
    \/ SendResponse

Spec == SvcInit /\ [][Next]_vars

-----------------------------------------------------------------------------
(* Requests served concurrently: creations and e-mail changes interleave   *)
(* at each access to the database.                                         *)

ConcEmails == {"a@x.com", "b@x.com"}

ConcCreateRequests == {[form |-> Merge(HassanForm, [email |-> e]), files |-> << >>] : e \in ConcEmails}

ConcUpdateRequests == {[form |-> [email |-> e], files |-> << >>] : e \in ConcEmails \cup {"c@x.com"}}

ConcCreateDriver == \E r \in Slots : CreateDriverStart(r, ConcCreateRequests)
ConcCreateDriverCommit == \E r \in Slots : CreateDriverWrite(r)
ConcUpdateDriver == \E r \in Slots : UpdateDriverStart(r, Ids, ConcUpdateRequests)
ConcUpdateDriverEmail == \E r \in Slots : UpdateDriverCheckEmail(r)
ConcSaveDriver == \E r \in Slots : RepositoryUpdate(r)
ConcSendResponse == \E r \in Slots : Respond(r)

ConcNext ==
    \/ ConcCreateDriver
    \/ ConcCreateDriverCommit
    \/ ConcUpdateDriver
    \/ ConcUpdateDriverEmail
    \/ ConcSaveDriver
    \/ ConcSendResponse

SpecConc == SvcInit /\ [][ConcNext]_vars

-----------------------------------------------------------------------------
(* The creation path on its own: POST /drivers with forms of every shape.  *)

\* Forms with one required field left out, with a required field left empty, and
\* complete forms with and without a driver type and the two statuses.
CreateForms ==
    {Without(BaseData, {f}) : f \in RequiredFields}
        \cup {Merge(BaseData, [firstName |-> NONE]), Merge(BaseData, [licenseState |-> NONE])}
        \cup {Merge(Merge(Merge(HassanForm, ty), st), es) :
                ty \in {<< >>, [driverType |-> "owner_operator"], [driverType |-> "contractor"]},
                st \in {<< >>, [status |-> "driving"], [status |-> "resting"]},
                es \in {<< >>, [employmentStatus |-> "leave"]}}

FormCreateRequests == {[form |-> f, files |-> << >>] : f \in CreateForms}

FormCreateDriver == CreateDriverStart(SeqSlot, FormCreateRequests)
FormCreateDriverCommit == CreateDriverWrite(SeqSlot)
FormSendResponse == Respond(SeqSlot)

CreateNext ==
    \/ FormCreateDriver
    \/ FormCreateDriverCommit
    \/ FormSendResponse

SpecCreate == SvcInit /\ [][CreateNext]_vars

-----------------------------------------------------------------------------
(* The employment requests of the service: drivers are created, then       *)
(* terminated, put on leave and returned from leave.                       *)

LeaveCreateRequests ==
    {[form |-> Merge(HassanForm, x), files |-> << >>] : x \in
        {<< >>, [email |-> "b@x.com", employmentStatus |-> "leave"]}}

LeaveCreateDriver == CreateDriverStart(SeqSlot, LeaveCreateRequests)
LeaveCreateDriverCommit == CreateDriverWrite(SeqSlot)
TerminateDriver == TerminateDriverStart(SeqSlot, Ids, {NONE, "policy violation"})
PutDriverOnLeave == PutDriverOnLeaveStart(SeqSlot, Ids, {NONE, "surgery"})
ReturnDriverFromLeave == ReturnDriverFromLeaveStart(SeqSlot, Ids)
LeaveSaveDriver == RepositoryUpdate(SeqSlot)
LeaveSendResponse == Respond(SeqSlot)

LeaveNext ==
    \/ LeaveCreateDriver
    \/ LeaveCreateDriverCommit
    \/ TerminateDriver
    \/ PutDriverOnLeave
    \/ ReturnDriverFromLeave
    \/ LeaveSaveDriver
    \/ LeaveSendResponse

SpecLeave == SvcInit /\ [][LeaveNext]_vars

-----------------------------------------------------------------------------
(* Drivers with contacts and endorsements created, updated and deleted by  *)
(* requests served concurrently.                                           *)

DelCreateRequests ==
    {[form |-> Merge(HassanForm,
                     [email |-> e,
                      endorsements |-> <<[type |-> "h"]>>,
                      emergencyContacts |->
                          <<[name |-> "Sara", relationship |-> "spouse", phone |-> "519-980-6545"]>>]),
      files |-> << >>] : e \in ConcEmails}

DelUpdateRequests == {[form |-> [endorsements |-> <<[type |-> "N"]>>], files |-> << >>]}

\* One creation or update and one deletion are in progress at a time.
DelSlot == "r2"

DelCreateDriver == CreateDriverStart(SeqSlot, DelCreateRequests)
DelCreateDriverCommit == CreateDriverWrite(SeqSlot)
DelUpdateDriver == UpdateDriverStart(SeqSlot, Ids, DelUpdateRequests)
DelSaveDriver == RepositoryUpdate(SeqSlot)
DeleteDriver == DeleteDriverStart(DelSlot, Ids)
DeleteDriverCommit == DeleteDriverWrite(DelSlot)
DelSendResponse == \E r \in Slots : Respond(r)

DelNext ==
    \/ DelCreateDriver
    \/ DelCreateDriverCommit
    \/ DelUpdateDriver
    \/ DelSaveDriver
    \/ DeleteDriver
    \/ DeleteDriverCommit
    \/ DelSendResponse

SpecDelete == SvcInit /\ [][DelNext]_vars

-----------------------------------------------------------------------------
(* The repository used directly: Driver records with contacts,             *)
(* endorsements and documents are created, loaded, changed in memory and   *)
(* saved.                                                                  *)

\* The most document rows the table is let grow to.
MaxDocs == 4

SaraContact == [name |-> "Sara", relationship |-> "spouse", phone |-> "519-980-6545"]
OmarContact == [name |-> "Omar", relationship |-> "brother", phone |-> "519-980-6545"]
CdlDocument == [fileName |-> "cdl.pdf", fileUrl |-> "/files/cdl.pdf", fileType |-> "license"]

\* The records given to create(driver).
StoreRecords ==
    {DriverCreate(Merge(BaseData, [emergencyContacts |-> cs, endorsements |-> es,
                                   documents |-> ds]), StartTime).driver :
        cs \in {<< >>, <<SaraContact>>}, es \in {<< >>, <<[type |-> "H"]>>},
        ds \in {<< >>, <<CdlDocument>>}}

\* What the caller does to a loaded record before it saves it.
StoreChanges == {"none", "addEmergencyContact", "dropEndorsements"}

StoreChange(driver, change, t) ==
    IF change = "addEmergencyContact" THEN DriverAddTo(driver, "emergencyContacts", OmarContact, t)
    ELSE IF change = "dropEndorsements" THEN Merge(driver, [endorsements |-> << >>])
    ELSE driver

\* create(driver) is called with a new record.
StoreCreateStart ==
    /\ req[SeqSlot].pc = "idle"
    /\ nextId < MaxDrivers
    /\ \E driver \in StoreRecords :
        Local(SeqSlot, [Begin("create", NONE, << >>, << >>, NONE) EXCEPT
                            !.pc = "create", !.local = driver])

StoreCreateWrite == CreateDriverWrite(SeqSlot)

\* findById(id), then the change in memory; update(driver) follows.
StoreLoad ==
    /\ req[SeqSlot].pc = "idle"
    /\ \E id \in DOMAIN store.driver, change \in StoreChanges :
        LET driver == FindById(store, id, now)
            b == Begin("update", id, << >>, << >>, change)
        IN  /\ Len(store.document) + Len(Get(driver.driver, "documents")) <= MaxDocs
            /\ change = "addEmergencyContact" =>
                    Len(Get(driver.driver, "emergencyContacts")) < MaxElems
            /\ Local(SeqSlot, IF driver.result # "ok" THEN Fail(b, driver.result)
                              ELSE [b EXCEPT !.pc = "update", !.loaded = driver.driver,
                                             !.local = StoreChange(driver.driver, change, now)])

StoreUpdateWrite == RepositoryUpdate(SeqSlot)

StoreReturn == Respond(SeqSlot)

StoreNext ==
    \/ StoreCreateStart
    \/ StoreCreateWrite
    \/ StoreLoad
    \/ StoreUpdateWrite
    \/ StoreReturn

SpecStore == SvcInit /\ [][StoreNext]_vars

-----------------------------------------------------------------------------
(* Stored drivers read back while time passes: the credentials of a stored *)
(* driver reach their expiry dates.                                        *)

\* Creation requests whose license or medical certificate expires on the day of the
\* request or on the day after.
ExpiryCreateRequests ==
    {[form |-> Merge(HassanForm, x), files |-> << >>] : x \in
        {<< >>, [licenseExpiry |-> StartTime], [email |-> "b@x.com", medCertExpiry |-> StartTime]}}

\* A handler that only reads: its answer is the result of the request.
ReadDone(b, found) ==
    [b EXCEPT !.pc = "done", !.result = found.result, !.invoked = TRUE]

\* getAllDrivers
GetAllDrivers ==
    /\ req[SeqSlot].pc = "idle"
    /\ Local(SeqSlot, ReadDone(Begin("getAllDrivers", NONE, << >>, << >>, NONE), FindAll(store, now)))

\* getDriverByEmail
GetDriverByEmail ==
    /\ req[SeqSlot].pc = "idle"
    /\ \E email \in ConcEmails :
        LET found == FindByEmail(store, email, now)
        IN  Local(SeqSlot, [ReadDone(Begin("getDriverByEmail", NONE, << >>, << >>, email), found)
                                EXCEPT !.returned = found.driver])

\* checkDriverCredentialStatus(id, daysThreshold)
CheckDriverCredentialStatus ==
    /\ req[SeqSlot].pc = "idle"
    /\ \E id \in Ids, daysThreshold \in {30} :
        LET driver == FindById(store, id, now)
            b == Begin("checkDriverCredentialStatus", id, << >>, << >>, NONE)
            found == driver.result = "ok" /\ driver.driver # NoDriver
        IN  /\ req' = [req EXCEPT ![SeqSlot] =
                        IF driver.result # "ok" THEN Fail(b, driver.result)
                        ELSE IF driver.driver = NoDriver THEN Fail(b, NotFound)
                        ELSE [ReadDone(b, driver) EXCEPT !.returned = driver.driver]]
            /\ cred' = IF found
                       THEN [threshold |-> daysThreshold, at |-> now, driver |-> driver.driver,
                             result |-> CheckCredentialStatus(driver.driver, daysThreshold, now)]
                       ELSE cred
            /\ UNCHANGED <<store, nextId, prev, now, entVars, hosVars, sub, subLast>>

ExpiryCreateDriver == CreateDriverStart(SeqSlot, ExpiryCreateRequests)
ExpiryCreateDriverCommit == CreateDriverWrite(SeqSlot)
ExpirySendResponse == Respond(SeqSlot)

ExpiryNext ==
    \/ ExpiryCreateDriver
    \/ ExpiryCreateDriverCommit
    \/ GetAllDrivers
    \/ GetDriverByEmail
    \/ CheckDriverCredentialStatus
    \/ ExpirySendResponse
    \/ EntTick

SpecExpiry == SvcInit /\ [][ExpiryNext]_vars

-----------------------------------------------------------------------------
(* Loads and the employment lifecycle together: drivers are created,       *)
(* given loads, terminated, put on leave and returned from leave, one      *)
(* request after the other.                                                *)

TermCreateRequests == {[form |-> HassanForm, files |-> << >>]}

TermCreateDriver == CreateDriverStart(SeqSlot, TermCreateRequests)
TermCreateDriverCommit == CreateDriverWrite(SeqSlot)
TermAssignLoad == AssignLoadStart(SeqSlot, Ids, Loads)
TermCompleteLoad == CompleteLoadStart(SeqSlot, Ids)
\* Every termination carries a note, no leave does: a notes field that begins with
\* "Termination: " marks a driver that was terminated.
TermTerminateDriver == TerminateDriverStart(SeqSlot, Ids, {"policy violation"})
TermPutDriverOnLeave == PutDriverOnLeaveStart(SeqSlot, Ids, {NONE})
TermReturnDriverFromLeave == ReturnDriverFromLeaveStart(SeqSlot, Ids)
TermSaveDriver == RepositoryUpdate(SeqSlot)
TermSendResponse == Respond(SeqSlot)

TermNext ==
    \/ TermCreateDriver
    \/ TermCreateDriverCommit
    \/ TermAssignLoad
    \/ TermCompleteLoad
    \/ TermTerminateDriver
    \/ TermPutDriverOnLeave
    \/ TermReturnDriverFromLeave
    \/ TermSaveDriver
    \/ TermSendResponse

SpecTerm == SvcInit /\ [][TermNext]_vars

-----------------------------------------------------------------------------
(* Loads assigned concurrently: two assignLoad requests interleave at each *)
(* access to the database.                                                 *)

RaceLoads == {"L1", "L2"}

RaceCreateDriver == CreateDriverStart(SeqSlot, TermCreateRequests)
RaceCreateDriverCommit == CreateDriverWrite(SeqSlot)
RaceAssignLoad == \E r \in Slots : AssignLoadStart(r, Ids, RaceLoads)
RaceSaveDriver == \E r \in Slots : RepositoryUpdate(r)
RaceSendResponse == \E r \in Slots : Respond(r)

RaceNext ==
    \/ RaceCreateDriver
    \/ RaceCreateDriverCommit
    \/ RaceAssignLoad
    \/ RaceSaveDriver
    \/ RaceSendResponse

SpecRace == SvcInit /\ [][RaceNext]_vars

-----------------------------------------------------------------------------
(* C1: an assignLoad request for a driver whose operational status is not  *)
(* available fails with the "not available" error; the Driver in memory    *)
(* keeps its status and loadId, the repository's update is not called and  *)
(* the store stays as it was.                                              *)

C1_UnavailableDriver(q) ==
    /\ q.op = "assignLoad"
    /\ q.loaded # NoDriver
    /\ ~IsAvailable(q.loaded)

C1_AssignLoadRefusedWhenNotAvailable ==
    \A r \in Slots :
        C1_UnavailableDriver(req[r]) =>
            /\ req[r].pc = "done"
            /\ req[r].result = NotAvailable
            /\ ~req[r].invoked
            /\ Get(req[r].local, "status") = Get(req[r].loaded, "status")
            /\ Get(req[r].local, "loadId") = Get(req[r].loaded, "loadId")
            /\ store = req[r].before

\* assignLoad was asked for a driver who is driving a load, and for one on a break.
C1_Witness ==
    /\ C1_UnavailableDriver(req[SeqSlot])
    /\ req[SeqSlot].loaded.status = "on-break"
    /\ req[SeqSlot].result = NotAvailable
    /\ \E id \in DOMAIN store.driver : Row(store, id).status = "driving"

-----------------------------------------------------------------------------
(* C2: when assignLoad succeeds on an available driver, the stored record  *)
(* has status driving and the assigned loadId until the next request; a    *)
(* completeLoad for that driver answered right after it succeeds and       *)
(* leaves the stored record with status available, no loadId, and every    *)
(* other field but updatedAt as it was before the assignment.              *)

C2_InBetween ==
    prev.op = "assignLoad" =>
        /\ Get(prev.row, "status") = "available"
        /\ ~req[SeqSlot].invoked =>
            /\ Row(store, prev.id).status = "driving"
            /\ Row(store, prev.id).loadId = prev.text

C2_RoundTripDone ==
    /\ prev.op = "assignLoad"
    /\ req[SeqSlot].op = "completeLoad"
    /\ req[SeqSlot].id = prev.id
    /\ req[SeqSlot].pc = "done"

C2_AssignThenCompleteRestores ==
    /\ C2_InBetween
    /\ C2_RoundTripDone =>
        /\ req[SeqSlot].result = "ok"
        /\ Row(store, prev.id).status = "available"
        /\ Falsy("loadId", Get(Row(store, prev.id), "loadId"))
        /\ Get(req[SeqSlot].returned, "status") = "available"
        /\ Falsy("loadId", Get(req[SeqSlot].returned, "loadId"))
        /\ \A f \in (DOMAIN prev.row \cup DOMAIN Row(store, prev.id)) \ {"status", "loadId", "updatedAt"} :
                Get(Row(store, prev.id), f) = Get(prev.row, f)

\* The round trip was made on a record that carries notes and an endorsement.
C2_Witness ==
    /\ C2_RoundTripDone
    /\ Get(prev.row, "notes") = "renewed"
    /\ Len(prev.row.endorsements) = 1
    /\ Row(store, prev.id).status = "available"

-----------------------------------------------------------------------------
(* C3: a createDriver request whose e-mail belongs to a stored record      *)
(* fails with the "already exists" error whatever its other fields and its *)
(* files are; the repository's create is not called and the store stays as *)
(* it was.                                                                 *)

C3_DuplicateEmail(q) ==
    /\ q.op = "createDriver"
    /\ \E id \in DOMAIN q.before.driver : q.before.driver[id].email = Get(q.data, "email")

C3_DuplicateEmailRefused ==
    \A r \in Slots :
        C3_DuplicateEmail(req[r]) =>
            /\ req[r].pc = "done"
            /\ req[r].result = AlreadyExists
            /\ ~req[r].invoked
            /\ store = req[r].before

\* A creation with a stored e-mail and an expired license was refused as a duplicate.
C3_Witness ==
    /\ C3_DuplicateEmail(req[SeqSlot])
    /\ req[SeqSlot].data.email = "b@x.com"
    /\ req[SeqSlot].data.licenseExpiry < now
    /\ req[SeqSlot].result = AlreadyExists

-----------------------------------------------------------------------------
(* C4: however concurrent createDriver and updateDriver requests           *)
(* interleave, no two stored driver records have the same e-mail.          *)

C4_EmailsUnique ==
    \A i \in DOMAIN store.driver, j \in DOMAIN store.driver : i # j => Row(store, i).email # Row(store, j).email

C4_Refused(r) == req[r].result = "Unique constraint failed on the fields: (email)"

\* Two updates passed the e-mail check with the same new e-mail: the one that wrote
\* second was refused by the database.
C4_Witness ==
    /\ C4_Refused("r2")
    /\ req["r2"].op = "updateDriver"
    /\ req["r1"].op = "updateDriver"
    /\ req["r1"].result = "ok"
    /\ req["r1"].invoked
    /\ req["r1"].data = req["r2"].data

-----------------------------------------------------------------------------
(* C5: a call addDrivingTime(h) with h >= 0 whose candidate totals would   *)
(* break a constraint (driving > 11 h, duty > 14 h, or driving > duty) is  *)
(* rejected with InvalidHoursOfServiceError and leaves drivingHoursToday,  *)
(* dutyHoursToday and timeUntilBreakRequired as they were before the call. *)
C5_Violates(pre, h) ==
    \/ pre.drivingHoursToday + h > MAX_DRIVING_HOURS_PER_DAY * TicksPerHour
    \/ pre.dutyHoursToday + h > MAX_DUTY_HOURS_PER_DAY * TicksPerHour
    \/ pre.drivingHoursToday + h > pre.dutyHoursToday + h

C5_RejectedAddDrivingTimeIsAtomic ==
    (/\ hosLast.op = "addDrivingTime"
     /\ hosLast.hours >= 0
     /\ C5_Violates(hosLast.pre, hosLast.hours))
    => (/\ hosLast.result = "InvalidHoursOfServiceError"
        /\ hos = hosLast.pre)

\* Several accepted calls brought driving to 10 h; the call that would cross 11 h was rejected.
C5_Witness ==
    /\ hosLast.op = "addDrivingTime"
    /\ hosLast.hours >= 1
    /\ hosLast.pre.drivingHoursToday = 10 * TicksPerHour
    /\ hosLast.pre.drivingHoursToday + hosLast.hours > MAX_DRIVING_HOURS_PER_DAY * TicksPerHour
    /\ hosLast.pre.dutyHoursToday + hosLast.hours <= MAX_DUTY_HOURS_PER_DAY * TicksPerHour
    /\ hosLast.result = "InvalidHoursOfServiceError"
    /\ hos = hosLast.pre

(* C6: every state of a counter obtained from create or createDefault and  *)
(* changed by addDrivingTime, addOnDutyTime, takeBreak and resetForNewDay  *)
(* (accepted or rejected) has 0 <= driving <= duty <= 14 h, driving <= 11 h*)
(* and timeUntilBreakRequired >= 0.                                        *)
C6_HoursInvariant ==
    /\ 0 <= hos.drivingHoursToday
    /\ hos.drivingHoursToday <= hos.dutyHoursToday
    /\ hos.dutyHoursToday <= MAX_DUTY_HOURS_PER_DAY * TicksPerHour
    /\ hos.drivingHoursToday <= MAX_DRIVING_HOURS_PER_DAY * TicksPerHour
    /\ hos.timeUntilBreakRequired >= 0

\* A counter at both daily maxima after a rejected call.
C6_Witness ==
    /\ hos.drivingHoursToday = MAX_DRIVING_HOURS_PER_DAY * TicksPerHour
    /\ hos.dutyHoursToday = MAX_DUTY_HOURS_PER_DAY * TicksPerHour
    /\ hosLast.op \in {"addDrivingTime", "addOnDutyTime"}
    /\ hosLast.result = "InvalidHoursOfServiceError"

(* C7: Driver.update(partial) validates the merge of the current record    *)
(* with the partial data; when the merged record breaks an invariant (a    *)
(* required field empty, a license or medical-certificate expiry in the    *)
(* past, an unknown driver type or employment status, or anything else the *)
(* validation refuses) it throws and no field of the record changes, the   *)
(* valid fields of the partial and updatedAt included.                     *)
C7_MergedInvalid(m, t) ==
    \/ \E f \in RequiredFields : Get(m, f) = Undefined(f)
    \/ Get(m, "licenseExpiry") < t
    \/ Get(m, "medCertExpiry") < t
    \/ Get(m, "driverType") \notin DriverTypes
    \/ Get(m, "employmentStatus") \notin EmploymentStatuses
    \/ ValidateDriverData(m, t) # "ok"

C7_RejectedUpdateChangesNothing ==
    (/\ entLast.op = "update"
     /\ C7_MergedInvalid(Merge(entLast.pre, entLast.data), entLast.at))
    => (/\ entLast.result # "ok"
        /\ ent = entLast.pre
        /\ \A f \in DOMAIN entLast.data \cup DOMAIN ent : Get(ent, f) = Get(entLast.pre, f))

\* A rejected update that carried a valid first name and an expired license, made
\* after the record's last change.
C7_Witness ==
    /\ entLast.op = "update"
    /\ entLast.result = "Invalid driver data: License is already expired"
    /\ "firstName" \in DOMAIN entLast.data
    /\ Get(entLast.data, "firstName") # Get(entLast.pre, "firstName")
    /\ Get(entLast.data, "licenseExpiry") < entLast.at
    /\ Get(entLast.pre, "updatedAt") < entLast.at
    /\ ent = entLast.pre

-----------------------------------------------------------------------------
(* C8: when an updateDriver request for a stored driver is rejected, the   *)
(* Driver loaded for it has every field as it was loaded and the           *)
(* repository's update has not been called.                                *)

C8_Rejected(q) ==
    /\ q.op = "updateDriver"
    /\ q.pc = "done"
    /\ q.loaded # NoDriver
    /\ q.result # "ok"

C8_RejectedUpdateTouchesNothing ==
    \A r \in Slots :
        C8_Rejected(req[r]) => ~req[r].invoked /\ SameFields(req[r].local, req[r].loaded)

-----------------------------------------------------------------------------
(* C9: a driver created through the createDriver request path has the      *)
(* operational status and the employment status the form supplied, and     *)
(* available and active where the form supplied none.                      *)

C9_Expected(form, f, default) == IF Falsy(f, Get(form, f)) THEN default ELSE form[f]

C9_Created(q) ==
    /\ q.op = "createDriver"
    /\ q.pc = "done"
    /\ q.result = "ok"
    /\ Get(q.data, "status") \in DriverStatuses \cup {NONE}
    /\ Get(q.data, "employmentStatus") \in EmploymentStatuses \cup {NONE}

C9_CreatedWithSuppliedStatuses ==
    \A r \in Slots :
        C9_Created(req[r]) =>
            /\ req[r].returned.status = C9_Expected(req[r].data, "status", "available")
            /\ req[r].returned.employmentStatus = C9_Expected(req[r].data, "employmentStatus", "active")
            /\ Row(store, req[r].returned.id).status = req[r].returned.status
            /\ Row(store, req[r].returned.id).employmentStatus = req[r].returned.employmentStatus

-----------------------------------------------------------------------------
(* C10: a creation request whose form lacks a required field, or has it    *)
(* empty, or whose driverType is not one of company, owner_operator and    *)
(* lease_purchase, fails and stores nothing.                               *)

C10_BadForm(form) ==
    \/ \E f \in RequiredFields : Falsy(f, Get(form, f))
    \/ Get(form, "driverType") \notin DriverTypes

C10_BadFormRefused ==
    \A r \in Slots :
        (/\ req[r].op = "createDriver"
         /\ req[r].pc = "done"
         /\ C10_BadForm(req[r].data))
        => (/\ req[r].result # "ok"
            /\ ~req[r].invoked
            /\ store = req[r].before)

-----------------------------------------------------------------------------
(* C11: terminate(notes) on a Driver in any state sets the employment      *)
(* status to terminated and the operational status to off-duty; with notes *)
(* given, the notes field ends with "Termination: <notes>" and begins with *)
(* the text it had before; with no notes given, the notes field is as it   *)
(* was.                                                                    *)

IsPrefix(p, x) == Len(p) <= Len(x) /\ SubSeq(x, 1, Len(p)) = p

EndsWith(x, e) == Len(e) <= Len(x) /\ SubSeq(x, Len(x) - Len(e) + 1, Len(x)) = e

C11_TerminateSetsStatusesAndAppendsNotes ==
    entLast.op = "terminate" =>
        /\ ent.employmentStatus = "terminated"
        /\ ent.status = "off-duty"
        /\ Falsy("notes", entLast.text) => Get(ent, "notes") = Get(entLast.pre, "notes")
        /\ ~Falsy("notes", entLast.text) =>
            /\ EndsWith(ent.notes, "Termination: " \o entLast.text)
            /\ ~Falsy("notes", Get(entLast.pre, "notes")) =>
                /\ IsPrefix(entLast.pre.notes, ent.notes)
                /\ Len(ent.notes) > Len(entLast.pre.notes) + Len("Termination: " \o entLast.text)

\* A driver on leave whose notes already held a leave note was terminated with notes.
C11_Witness ==
    /\ entLast.op = "terminate"
    /\ entLast.text = "policy violation"
    /\ entLast.pre.employmentStatus = "leave"
    /\ Get(entLast.pre, "notes") = "renewed\n\nLeave: surgery"
    /\ ent.notes = "renewed\n\nLeave: surgery\n\nTermination: policy violation"

-----------------------------------------------------------------------------
(* C12: a completeLoad request for a driver with no loadId fails with the  *)
(* "no load assigned" error and leaves status and loadId as they were, in  *)
(* memory and in the store; for a driver with a loadId it succeeds, clears *)
(* the loadId and sets the operational status to available.                *)

C12_Loaded(q) == q.op = "completeLoad" /\ q.loaded # NoDriver

C12_HasLoad(q) == ~Falsy("loadId", Get(q.loaded, "loadId"))

C12_CompleteLoadNeedsLoad ==
    \A r \in Slots :
        /\ C12_Loaded(req[r]) /\ ~C12_HasLoad(req[r]) =>
            /\ req[r].pc = "done"
            /\ req[r].result = NoLoadAssigned
            /\ ~req[r].invoked
            /\ Get(req[r].local, "status") = Get(req[r].loaded, "status")
            /\ Get(req[r].local, "loadId") = Get(req[r].loaded, "loadId")
            /\ store = req[r].before
        /\ C12_Loaded(req[r]) /\ C12_HasLoad(req[r]) =>
            /\ req[r].local.status = "available"
            /\ Falsy("loadId", Get(req[r].local, "loadId"))
            /\ req[r].pc = "done" =>
                /\ req[r].result = "ok"
                /\ Row(store, req[r].id).status = "available"
                /\ Falsy("loadId", Get(Row(store, req[r].id), "loadId"))

\* completeLoad was refused for a driver on a break who has no load.
C12_Witness ==
    /\ C12_Loaded(req[SeqSlot])
    /\ ~C12_HasLoad(req[SeqSlot])
    /\ req[SeqSlot].loaded.status = "on-break"
    /\ req[SeqSlot].result = NoLoadAssigned

-----------------------------------------------------------------------------
(* C13: a returnDriverFromLeave request for a driver whose employment      *)
(* status is not leave fails with the "not on leave" error and leaves the  *)
(* employment status and the operational status as they were, in memory    *)
(* and in the store.                                                       *)

C13_NotOnLeave(q) ==
    /\ q.op = "returnDriverFromLeave"
    /\ q.loaded # NoDriver
    /\ q.loaded.employmentStatus # "leave"

C13_ReturnFromLeaveNeedsLeave ==
    \A r \in Slots :
        C13_NotOnLeave(req[r]) =>
            /\ req[r].pc = "done"
            /\ req[r].result = NotOnLeave
            /\ ~req[r].invoked
            /\ req[r].local.employmentStatus = req[r].loaded.employmentStatus
            /\ req[r].local.status = req[r].loaded.status
            /\ store = req[r].before

\* returnDriverFromLeave was refused for a terminated driver, another driver being active.
C13_Witness ==
    /\ C13_NotOnLeave(req[SeqSlot])
    /\ req[SeqSlot].loaded.employmentStatus = "terminated"
    /\ req[SeqSlot].result = NotOnLeave
    /\ \E id \in DOMAIN store.driver : Row(store, id).employmentStatus = "active"

-----------------------------------------------------------------------------
(* C14: putOnLeave sets employment status leave with operational status    *)
(* away; returnFromLeave sets employment status active with operational    *)
(* status available, so a driver put on leave and then returned is active  *)
(* and available.                                                          *)

C14_LeavePairsStatuses ==
    /\ entLast.op = "putOnLeave" => ent.employmentStatus = "leave" /\ ent.status = "away"
    /\ entLast.op = "returnFromLeave" => ent.employmentStatus = "active" /\ ent.status = "available"

\* A driver that putOnLeave had left on leave and away was returned from leave.
C14_Witness ==
    /\ entLast.op = "returnFromLeave"
    /\ entLast.pre.employmentStatus = "leave"
    /\ entLast.pre.status = "away"
    /\ Get(entLast.pre, "notes") = "Leave: surgery"
    /\ ent.employmentStatus = "active"
    /\ ent.status = "available"

-----------------------------------------------------------------------------
(* C15: checkCredentialStatus(threshold) reports, for the license, the     *)
(* medical certificate and the TWIC card, expired exactly when the clock   *)
(* is past the expiry, and expiring soon exactly when the expiry is        *)
(* between the clock and the clock plus threshold days, both ends          *)
(* included; with no TWIC expiry both TWIC answers are false.  With        *)
(* threshold 30 an expiry 10 days ahead is (not expired, expiring soon)    *)
(* and an expiry one day past is (expired, not expiring soon).             *)

C15_Expired(expiry) == cred.at > expiry

C15_ExpiringSoon(expiry) == cred.at <= expiry /\ expiry <= cred.at + cred.threshold

C15_CredentialStatus ==
    cred.driver # NoDriver =>
        /\ cred.result.licenseExpired = C15_Expired(cred.driver.licenseExpiry)
        /\ cred.result.licenseExpiringSoon = C15_ExpiringSoon(cred.driver.licenseExpiry)
        /\ cred.result.medCertExpired = C15_Expired(cred.driver.medCertExpiry)
        /\ cred.result.medCertExpiringSoon = C15_ExpiringSoon(cred.driver.medCertExpiry)
        /\ "twicExpiry" \in DOMAIN cred.driver =>
            /\ cred.result.twicExpired = C15_Expired(cred.driver.twicExpiry)
            /\ cred.result.twicExpiringSoon = C15_ExpiringSoon(cred.driver.twicExpiry)
        /\ "twicExpiry" \notin DOMAIN cred.driver =>
            ~cred.result.twicExpired /\ ~cred.result.twicExpiringSoon
        /\ cred.threshold = 30 /\ cred.driver.licenseExpiry = cred.at + 10 =>
            ~cred.result.licenseExpired /\ cred.result.licenseExpiringSoon
        /\ cred.threshold = 30 /\ cred.driver.licenseExpiry = cred.at - 1 =>
            cred.result.licenseExpired /\ ~cred.result.licenseExpiringSoon

\* A check with threshold 30 of a license that expired the day before, a medical
\* certificate that expires on the threshold date, and no TWIC card.
C15_Witness ==
    /\ cred.driver # NoDriver
    /\ cred.threshold = 30
    /\ cred.driver.licenseExpiry = cred.at - 1
    /\ cred.driver.medCertExpiry = cred.at + 30
    /\ "twicExpiry" \notin DOMAIN cred.driver
    /\ cred.result.licenseExpired
    /\ cred.result.medCertExpiringSoon

-----------------------------------------------------------------------------
(* C16: Driver.create and Driver.update reject a record for its date of    *)
(* birth exactly when the age in completed years at the time of the call   *)
(* is below 21 or above 80.                                                *)

\* The record a create or an update validates.
Validated(call) == IF call.op = "update" THEN Merge(call.pre, call.data) ELSE call.data

DobError == "Invalid driver data: Invalid date of birth"

\* The age in completed years at time t of someone born at dob.
Age(dob, t) == (t - dob) \div DaysPerYear

C16_AgeAllowed == Age(Validated(entLast).dob, entLast.at) \in 21..80

C16_DobAcceptedByAge ==
    entLast.op \in {"create", "update"} =>
        /\ entLast.result = DobError => ~C16_AgeAllowed
        /\ entLast.result = "ok" => C16_AgeAllowed

-----------------------------------------------------------------------------
(* C17: Driver.create and Driver.update reject every record whose license  *)
(* expiry or medical-certificate expiry, after the merge, is earlier than  *)
(* the clock, and reject no record for an expiry at or after the clock; a  *)
(* rejected update leaves the record as it was.                            *)

LicenseExpiredError == "Invalid driver data: License is already expired"

MedCertExpiredError == "Invalid driver data: Medical certificate is already expired"

C17_PastExpiryRejected ==
    entLast.op \in {"create", "update"} =>
        /\ Validated(entLast).licenseExpiry < entLast.at => entLast.result # "ok"
        /\ Validated(entLast).medCertExpiry < entLast.at => entLast.result # "ok"
        /\ entLast.result = LicenseExpiredError => Validated(entLast).licenseExpiry < entLast.at
        /\ entLast.result = MedCertExpiredError => Validated(entLast).medCertExpiry < entLast.at
        /\ entLast.result # "ok" => ent = entLast.pre

\* An update that does not touch the license was rejected because the license of the
\* record had expired since its creation.
C17_Witness ==
    /\ entLast.op = "update"
    /\ entLast.data = [firstName |-> "Omar"]
    /\ entLast.pre.licenseExpiry = entLast.at - 1
    /\ entLast.result = LicenseExpiredError
    /\ ent.firstName = "Hassan"

-----------------------------------------------------------------------------
\* C18: Endorsement.create and Endorsement.update accept a type exactly when
\* its uppercase form is one of H, N, P, S, T, X and store the uppercase form
\* ("h" is stored as "H", "Z" is rejected); the type of an Endorsement is
\* always one of the six codes.
C18_TypeGiven ==
    /\ subLast.op \in {"Endorsement.create", "Endorsement.update"}
    /\ "type" \in DOMAIN subLast.data

C18_EndorsementTypeIsACode ==
    /\ C18_TypeGiven =>
        /\ subLast.result = "ok" <=> subLast.data.type \in {"h", "H", "N", "X"}
        /\ subLast.result = "ok" =>
                sub.type = (IF subLast.data.type = "h" THEN "H" ELSE subLast.data.type)
        /\ subLast.result # "ok" => subLast.result = "Invalid endorsement type"
    /\ (sub # << >> /\ sub.kind = "endorsement") => sub.type \in {"H", "N", "P", "S", "T", "X"}

C18_Witness ==
    /\ subLast.op = "Endorsement.update"
    /\ subLast.data = [type |-> "h"]
    /\ subLast.pre.type = "N"
    /\ subLast.result = "ok"
    /\ sub.type = "H"

\* C19: an update of an Endorsement or a Document that names a type outside
\* the valid set is rejected before anything is assigned: every field of the
\* entity is as it was before the call.
C19_UpdateRejected ==
    /\ subLast.op \in {"Endorsement.update", "Document.update"}
    /\ subLast.result \in {"Invalid endorsement type", "Invalid document type"}

C19_RejectedUpdateChangesNothing == C19_UpdateRejected => sub = subLast.pre

\* C20: after deleteDriver(id) succeeds, findById(id) finds nothing and no
\* emergency contact, endorsement, document or hours-of-service row belongs
\* to id; in every state of the store each such row belongs to a Driver row
\* that exists.
C20_ChildTables == {"emergencyContact", "endorsement", "document", "hoursOfService"}

C20_Deleted(r) ==
    /\ req[r].op = "deleteDriver"
    /\ req[r].pc = "done"
    /\ req[r].result = "ok"

C20_DeleteCascades ==
    /\ \A r \in Slots :
        C20_Deleted(r) =>
            /\ FindById(store, req[r].id, now) = [result |-> "ok", driver |-> NoDriver]
            /\ \A t \in C20_ChildTables :
                \A i \in 1..Len(store[t]) : store[t][i].driverId # req[r].id
    /\ \A t \in C20_ChildTables :
        \A i \in 1..Len(store[t]) : store[t][i].driverId \in DOMAIN store.driver

C20_Witness ==
    \E r \in Slots :
        /\ C20_Deleted(r)
        /\ req[r].id \in DOMAIN req[r].before.driver
        /\ Len(Owned(req[r].before.emergencyContact, req[r].id)) = 1
        /\ Owned(req[r].before.endorsement, req[r].id) = <<[type |-> "N"]>>
        /\ Len(Owned(req[r].before.hoursOfService, req[r].id)) = 1
        /\ \E other \in DOMAIN store.driver : Len(Owned(store.endorsement, other)) = 1

\* C21: EmergencyContact.isValid() returns true exactly when name,
\* relationship and phone are all non-empty and the phone holds at least ten
\* digit characters.
C21_Digits == {"0", "1", "2", "3", "4", "5", "6", "7", "8", "9"}

C21_DigitCount(p) == Cardinality({i \in 1..Len(p) : SubSeq(p, i, i) \in C21_Digits})

C21_IsValidCountsDigits ==
    subLast.op = "EmergencyContact.isValid" =>
        (subLast.result = "true" <=>
            /\ NonEmpty(sub.name)
            /\ NonEmpty(sub.relationship)
            /\ NonEmpty(sub.phone)
            /\ C21_DigitCount(sub.phone) >= 10)

\* C22: addOnDutyTime(hours) with hours >= 0, when accepted, adds exactly
\* hours to dutyHoursToday and leaves drivingHoursToday and
\* timeUntilBreakRequired as they were; a rejected call (negative hours, or a
\* duty total above 14 h) leaves the three fields as they were.
C22_Rejected ==
    \/ hosLast.hours < 0
    \/ hosLast.pre.dutyHoursToday + hosLast.hours > 14 * TicksPerHour

C22_AddOnDutyTimeChangesDutyOnly ==
    hosLast.op = "addOnDutyTime" =>
        IF C22_Rejected
        THEN hosLast.result = "InvalidHoursOfServiceError" /\ hos = hosLast.pre
        ELSE /\ hosLast.result = "ok"
             /\ hos.dutyHoursToday = hosLast.pre.dutyHoursToday + hosLast.hours
             /\ hos.drivingHoursToday = hosLast.pre.drivingHoursToday
             /\ hos.timeUntilBreakRequired = hosLast.pre.timeUntilBreakRequired

\* An accepted call of a positive length on a counter whose countdown was running.
C22_Witness ==
    /\ hosLast.op = "addOnDutyTime"
    /\ hosLast.hours >= 2
    /\ hosLast.result = "ok"
    /\ hosLast.pre.timeUntilBreakRequired > 0
    /\ hosLast.pre.drivingHoursToday > 0
    /\ hos.dutyHoursToday = hosLast.pre.dutyHoursToday + hosLast.hours

\* C23: takeBreak(hours) with hours >= 0, zero included, sets
\* timeUntilBreakRequired to half an hour whatever hours is and leaves
\* drivingHoursToday and dutyHoursToday as they were; with hours < 0 it fails
\* and leaves the three fields as they were.
C23_TakeBreakResetsCountdown ==
    hosLast.op = "takeBreak" =>
        IF hosLast.hours < 0
        THEN hosLast.result = "InvalidHoursOfServiceError" /\ hos = hosLast.pre
        ELSE /\ hosLast.result = "ok"
             /\ 2 * hos.timeUntilBreakRequired = TicksPerHour
             /\ hos.drivingHoursToday = hosLast.pre.drivingHoursToday
             /\ hos.dutyHoursToday = hosLast.pre.dutyHoursToday

\* A break of length zero taken when the countdown had run out.
C23_Witness ==
    /\ hosLast.op = "takeBreak"
    /\ hosLast.hours = 0
    /\ hosLast.pre.timeUntilBreakRequired = 0
    /\ hosLast.pre.drivingHoursToday > 0
    /\ 2 * hos.timeUntilBreakRequired = TicksPerHour

\* C30: once needsBreak() is true for a counter it stays true after every
\* addDrivingTime and addOnDutyTime call, accepted or rejected, and becomes
\* false only through takeBreak or resetForNewDay; timeUntilBreakRequired
\* never increases except through those two operations.
C30_OnSameCounter == hosLast.op \notin {"none", "create", "createDefault"}

C30_BreakStaysDue ==
    /\ hosLast.op \in {"addDrivingTime", "addOnDutyTime"} =>
        /\ hos.timeUntilBreakRequired <= hosLast.pre.timeUntilBreakRequired
        /\ HosNeedsBreak(hosLast.pre) => HosNeedsBreak(hos)
    /\ (/\ C30_OnSameCounter
        /\ \/ hos.timeUntilBreakRequired > hosLast.pre.timeUntilBreakRequired
           \/ HosNeedsBreak(hosLast.pre) /\ ~HosNeedsBreak(hos))
        => hosLast.op \in {"takeBreak", "resetForNewDay"}

\* Driving time accepted on a counter whose break was already due.
C30_Witness ==
    /\ hosLast.op = "addDrivingTime"
    /\ hosLast.hours >= 1
    /\ hosLast.result = "ok"
    /\ HosNeedsBreak(hosLast.pre)
    /\ HosNeedsBreak(hos)
    /\ hos.drivingHoursToday = hosLast.pre.drivingHoursToday + hosLast.hours

\* C24: removeEmergencyContact, removeEndorsement and removeDocument called
\* with an id that no element of the collection has return false and leave
\* the collection and updatedAt as they were; called with an id some element
\* has they return true, remove every element with that id and no other, and
\* set updatedAt.
C24_Removal == entLast.op \in {"removeEmergencyContact", "removeEndorsement", "removeDocument"}

C24_Before == entLast.pre[entLast.text]

C24_HasId == \E i \in 1..Len(C24_Before) : C24_Before[i].id = entLast.data.id

C24_RemoveByIdentity ==
    C24_Removal =>
        IF C24_HasId
        THEN /\ entLast.result = "true"
             /\ \A i \in 1..Len(ent[entLast.text]) : ent[entLast.text][i].id # entLast.data.id
             /\ ent[entLast.text] = SelectSeq(C24_Before, LAMBDA e : e.id # entLast.data.id)
             /\ ent.updatedAt = entLast.at
        ELSE /\ entLast.result = "false"
             /\ ent[entLast.text] = C24_Before
             /\ ent.updatedAt = entLast.pre.updatedAt

\* A removal, after time had passed, that took both elements sharing an id.
C24_Witness ==
    /\ entLast.op = "removeEmergencyContact"
    /\ entLast.result = "true"
    /\ Len(entLast.pre.emergencyContacts) = 2
    /\ ent.emergencyContacts = << >>
    /\ Len(ent.endorsements) = 1
    /\ ent.updatedAt = entLast.at
    /\ entLast.at > entLast.pre.updatedAt

\* C25: after update(record) commits, the stored emergency contacts,
\* endorsements and documents of the driver are exactly the collections of
\* the record in memory, so saving a loaded record whose collections were
\* not changed leaves the stored collections the same size.
C25_Saved(r) ==
    /\ req[r].op = "update"
    /\ req[r].pc = "done"
    /\ req[r].invoked
    /\ req[r].result = "ok"

C25_StoredIsRecord ==
    \A r \in Slots :
        C25_Saved(r) =>
            \A f \in {"emergencyContacts", "endorsements", "documents"} :
                /\ Row(store, req[r].id)[f] = req[r].local[f]
                /\ req[r].text = "none" =>
                        Len(Row(store, req[r].id)[f]) = Len(Row(req[r].before, req[r].id)[f])

\* C26: every driver record stored successfully stays loadable as time
\* passes: findById, findByEmail and findAll never fail with a validation
\* error on a stored record, also after its license or medical-certificate
\* expiry date has passed, so that checkCredentialStatus can report
\* licenseExpired = true for a stored driver.
C26_Reads == {"getAllDrivers", "getDriverByEmail", "checkDriverCredentialStatus"}

C26_ValidationErrors == {LicenseExpiredError, MedCertExpiredError, DobError}

C26_StoredStaysLoadable ==
    /\ \A r \in Slots :
        (req[r].op \in C26_Reads /\ req[r].pc = "done") => req[r].result \notin C26_ValidationErrors
    /\ \A id \in DOMAIN store.driver :
        store.driver[id].licenseExpiry < now =>
            /\ FindById(store, id, now).result = "ok"
            /\ CheckCredentialStatus(FindById(store, id, now).driver, 30, now).licenseExpired

\* C27: createDriver and updateDriver given data that is valid otherwise and
\* at least one uploaded file whose MIME type passed the file filter succeed
\* and attach one Document for each uploaded file to the driver.
C27_Uploaded(q) ==
    /\ q.op \in {"createDriver", "updateDriver"}
    /\ q.pc = "done"
    /\ Len(q.files) > 0
    /\ \A i \in 1..Len(q.files) : q.files[i].mimetype \in AllowedMimes

\* The same request without its files would have reached the write.
C27_OtherwiseValid(q) ==
    IF q.op = "createDriver"
    THEN /\ FindByEmail(q.before, Get(ControllerCreateData(q.data), "email"), now)
                = [result |-> "ok", driver |-> NoDriver]
         /\ ServiceCreatePrepare(ControllerCreateData(q.data), << >>, now).result = "ok"
    ELSE /\ q.id \in DOMAIN q.before.driver
         /\ FindById(q.before, q.id, now).result = "ok"
         /\ Falsy("email", Get(ControllerUpdateData(q.data), "email"))
         /\ ServiceUpdatePrepare(FindById(q.before, q.id, now).driver,
                                 ControllerUpdateData(q.data), << >>, now).result = "ok"

C27_UploadsBecomeDocuments ==
    \A r \in Slots :
        (C27_Uploaded(req[r]) /\ C27_OtherwiseValid(req[r])) =>
            /\ req[r].result = "ok"
            /\ Len(Get(req[r].returned, "documents"))
                    = Len(Get(req[r].loaded, "documents")) + Len(req[r].files)

\* C28: after terminateDriver has succeeded for a driver, no sequence of
\* assignLoad, completeLoad, putDriverOnLeave and returnDriverFromLeave
\* requests leads to a successful assignLoad for that driver; a driver whose
\* employment status is terminated never has the status available.
C28_WasTerminated(driver) ==
    /\ ~Falsy("notes", Get(driver, "notes"))
    /\ IsPrefix("Termination: ", driver.notes)

C28_TerminatedStaysUnavailable ==
    /\ \A id \in DOMAIN store.driver :
        store.driver[id].employmentStatus = "terminated" => store.driver[id].status # "available"
    /\ \A r \in Slots :
        (/\ req[r].op = "assignLoad"
         /\ req[r].pc = "done"
         /\ req[r].invoked
         /\ req[r].result = "ok") => ~C28_WasTerminated(req[r].loaded)

\* C29: when two assignLoad requests with different load ids for the same
\* available driver interleave, at most one of them succeeds, and the stored
\* loadId is the one of the request that succeeded.
C29_Assigned(q) ==
    /\ q.op = "assignLoad"
    /\ q.pc = "done"
    /\ q.invoked
    /\ q.result = "ok"

\* The two requests loaded the driver in the same state, before either had written.
C29_Interleaved(q1, q2) ==
    /\ q1.op = "assignLoad"
    /\ q2.op = "assignLoad"
    /\ q1.id = q2.id
    /\ q1.text # q2.text
    /\ q1.loaded = q2.loaded
    /\ q1.loaded # NoDriver
    /\ IsAvailable(q1.loaded)

C29_OneAssignmentWins ==
    \A r1 \in Slots, r2 \in Slots :
        (r1 # r2 /\ C29_Interleaved(req[r1], req[r2])) =>
            /\ ~(C29_Assigned(req[r1]) /\ C29_Assigned(req[r2]))
            /\ ((C29_Assigned(req[r1]) /\ req[r2].pc = "done" /\ req[r2].result # "ok")
                    => store.driver[req[r1].id].loadId = req[r1].text)

====
